---- MODULE Spec2Model ----
(***************************************************************************)
(* Model of the Gopa scheduler (gopa_lang/graphics_stub.py, class          *)
(* Scheduler) together with the interpreter statements that drive it       *)
(* (gopa_lang/interpreter.py) and the permission checks that gate them     *)
(* (gopa_lang/permissions.py).                                             *)
(*                                                                         *)
(* Time is counted in whole seconds.  A task body is a list of statements  *)
(* of the program's AST; the table Body below is the program text the      *)
(* model runs, a body being named by the AST node that owns it.            *)
(* datetime.fromtimestamp is modelled for the UTC time zone.               *)
(***************************************************************************)
EXTENDS Integers, Sequences, FiniteSets, TLC

\* ---------------------------------------------------------------- bounds
MaxTime == 90
MaxTasks == 2
MaxReg == 3
MaxThreads == 2
MaxWallReg == 2
MaxClock == 30
MaxPasses == 3

SecondsPerMinute == 60
SecondsPerHour == 3600
SecondsPerDay == 86400

Dts == {30, 60}
PermSets == {{"timers"}, {"cron"}}

\* ------------------------------------------------------- the program text
\* Statements.  "say" prints a literal; "say_undefined" prints a variable
\* that is not defined, which raises NameError; "stop" raises StopSignal.
SayStmt == [op |-> "say"]
SayUndefinedStmt == [op |-> "say_undefined"]
StopStmt == [op |-> "stop"]
WaitStmt(s) == [op |-> "wait", seconds |-> s]
AfterStmt(s, b) == [op |-> "after", seconds |-> s, body |-> b]
EveryStmt(s, b) == [op |-> "every", seconds |-> s, body |-> b]
JobStmt(n, s, b) == [op |-> "job", name |-> n, seconds |-> s, body |-> b]
StopJobStmt(n) == [op |-> "stop_job", name |-> n]
CronStmt(sch, b) == [op |-> "cron", schedule |-> sch, body |-> b]
CallStmt(n) == [op |-> "call", name |-> n]

BodyIds == {"say", "wait", "fail", "err", "stopb", "rege", "regj"}

Body(b) ==
  CASE b = "say"   -> << SayStmt >>
    [] b = "wait"  -> << WaitStmt(30) >>
    [] b = "fail"  -> << StopStmt, WaitStmt(30) >>
    [] b = "err"   -> << SayUndefinedStmt, WaitStmt(30) >>
    [] b = "stopb" -> << StopJobStmt("b") >>
    [] b = "rege"  -> << EveryStmt(0, "say") >>
    [] b = "regj"  -> << JobStmt("b", 0, "say") >>
    [] b = "spawn" -> << CallStmt("spawn") >>

\* The functions the program defines, by name: the statements of
\* "define spawn: every 0 seconds: spawn end end".
FunctionBody(n) ==
  CASE n = "spawn" -> << EveryStmt(0, "spawn") >>

\* The top-level statements of the program; the driver executes them in
\* any order, any number of times.
MainStmts ==
  { AfterStmt(60, "say"), AfterStmt(0, "wait"), AfterStmt(0, "rege"),
    AfterStmt(0, "fail"),
    EveryStmt(60, "say"), EveryStmt(0, "wait"), EveryStmt(0, "fail"),
    JobStmt("a", 0, "stopb"), JobStmt("a", 0, "regj"),
    JobStmt("b", 0, "say"), JobStmt("b", 60, "err"),
    CronStmt("every minute", "say"), CronStmt("1 * * * *", "err"),
    StopJobStmt("b"), WaitStmt(30) }

\* The first statement of a program that is then stepped once.
StepStmts ==
  { AfterStmt(0, "rege"), AfterStmt(60, "say"), EveryStmt(0, "rege"),
    EveryStmt(0, "spawn"), EveryStmt(60, "say"), JobStmt("a", 0, "regj"),
    CronStmt("every minute", "say") }

\* The statements the main thread runs in wall-clock mode.
WallStmts ==
  { AfterStmt(0, "say"), EveryStmt(60, "say"), JobStmt("b", 0, "say"),
    CronStmt("every minute", "say"), WaitStmt(30) }

\* A program whose waits count backwards as well ("wait 0 minus 30
\* seconds"), and whose cron task is for the hour after the first.
ClockStmts ==
  { WaitStmt(30), WaitStmt(-30), AfterStmt(0, "wait"), EveryStmt(60, "say"),
    JobStmt("b", 0, "say"), CronStmt("* 1 * * *", "say") }

Stmts(op) == { node \in MainStmts : node.op = op }

\* ------------------------------------------------------------------ state
VARIABLES
  virtual_time,   \* Scheduler.virtual_time
  current_time,   \* Scheduler.current_time
  clock,          \* time.time(), the wall clock
  running,        \* Scheduler.running
  thr,            \* the threads made by Scheduler.start, each at its place
                  \* in run()
  main,           \* the statement the main thread is in the middle of
  after_tasks,    \* Scheduler.after_tasks : list of dicts
  every_tasks,    \* Scheduler.every_tasks : list of dicts
  jobs,           \* Scheduler.jobs : insertion-ordered dict, as a list
  cron_tasks,     \* Scheduler.cron_tasks : list of dicts
  perms,          \* the capabilities granted to the interpreter
  pc,             \* position of step(): idle, after, every, jobs, cron
  idx,            \* position of the running for-loop of step()
  snap_after,     \* the copy after_tasks[:] the first loop iterates
  snap_jobs,      \* the copy list(jobs.items()) the third loop iterates
  now,            \* datetime.fromtimestamp(current_time) of the cron loop
  propagated,     \* an exception left step()
  last,           \* history: the operation that ran last
  log,            \* history: the bodies dispatched by the current step
  nextId,         \* history: number of the next registration
  stats,          \* history: after tasks registered and dispatched so far,
                  \* and nextId and current_time when the step began
  perm_string,    \* the --perm string the Permissions were made from
  prog,           \* the program run_file runs (a name of the table Program)
  arg,            \* the value of the literal the program leaves open
  world,          \* what the collaborators answer: network, files, packages
  ip,             \* run_file: index of the next statement of ast.statements
  runtime,        \* Interpreter.runtime: the chain of Runtime frames, the
                  \* current one last
  out,            \* what was printed to the output stream and to stderr
  io,             \* the calls made to the collaborators so far
  status,         \* run_file: running, or what it returned
  hist,           \* history: what the evaluator did during the statements
  source,         \* the source text run_file read
  tokens,         \* Lexer.tokens, as tokenize() returned them
  parser          \* Parser: its position, the statements parsed so far,
                  \* and how far parse() is

sched == << current_time, clock, after_tasks, every_tasks, jobs,
           cron_tasks >>
wallv == << virtual_time, running, thr, main >>
langv == << perm_string, prog, arg, world, ip, runtime, out, io, status,
           hist, source, tokens, parser >>
ctl == << pc, idx, snap_after, snap_jobs, now, propagated >>
vars == << virtual_time, current_time, clock, running, thr, main,
           after_tasks, every_tasks, jobs, cron_tasks, perms, pc, idx, snap_after, snap_jobs, now, propagated, last, log,
           nextId, stats, perm_string, prog, arg, world, ip, runtime, out,
           io, status, hist, source, tokens, parser >>

\* ------------------------------------------------------------ permissions
check_timers(p) == "timers" \in p \/ "graphics" \in p

\* Variant: cron alone lets a cron statement pass.
check_cron_strict(p) == "cron" \in p

check_cron(p) == "cron" \in p \/ "timers" \in p

\* The flags of a Permissions object.
Capabilities ==
  { "network", "files", "graphics", "sound", "packages", "python_ffi",
    "server", "timers", "cron", "state" }

\* A permission string is given as the list perm_string.split(',') of its
\* parts, the empty string as the empty list.  p.strip().lower():
strip_lower(p) ==
  CASE p = " Timers" -> "timers"
    [] p = "CRON " -> "cron"
    [] OTHER -> p

\* Variant: nothing is granted by default.
Permissions_none(s) ==
  IF s = << >> THEN {}
  ELSE LET ps == { strip_lower(s[i]) : i \in 1..Len(s) }
       IN { c \in Capabilities \ {"python_ffi"} : c \in ps }
            \cup (IF "python" \in ps \/ "python_ffi" \in ps
                    THEN {"python_ffi"} ELSE {})

\* Variant: packages stays granted whatever the string names.
Permissions_keep(s) ==
  IF s = << >> THEN {"packages"}
  ELSE LET ps == { strip_lower(s[i]) : i \in 1..Len(s) }
       IN { c \in Capabilities \ {"python_ffi"} : c \in ps }
            \cup {"packages"}
            \cup (IF "python" \in ps \/ "python_ffi" \in ps
                    THEN {"python_ffi"} ELSE {})

\* Permissions.__init__: the set of the flags that are True.
Permissions(s) ==
  IF s = << >> THEN {"packages"}
  ELSE LET ps == { strip_lower(s[i]) : i \in 1..Len(s) }
       IN { c \in Capabilities \ {"python_ffi"} : c \in ps }
            \cup (IF "python" \in ps \/ "python_ffi" \in ps
                    THEN {"python_ffi"} ELSE {})

check_network(p) == "network" \in p

check_files(p) == "files" \in p

\* Variant: the check of graphics lets everything pass.
check_graphics_open(p) == TRUE

check_graphics(p) == "graphics" \in p

check_packages(p) == "packages" \in p

check_python_ffi(p) == "python_ffi" \in p

check_server(p) == "server" \in p

\* ----------------------------------------------------------------- values
\* The values of the language: None, bool, int, str, list, and the Python
\* objects a collaborator hands back (a canvas, a module).
Nothing == [t |-> "nothing", n |-> 0, s |-> "", l |-> << >>]
Num(n) == [t |-> "num", n |-> n, s |-> "", l |-> << >>]
Str(s) == [t |-> "str", n |-> 0, s |-> s, l |-> << >>]
Bool(b) == [t |-> "bool", n |-> IF b THEN 1 ELSE 0, s |-> "", l |-> << >>]
List(l) == [t |-> "list", n |-> 0, s |-> "", l |-> l]
Object(s) == [t |-> "object", n |-> 0, s |-> s, l |-> << >>]

\* bool(v)
Truthy(v) ==
  CASE v.t = "nothing" -> FALSE
    [] v.t \in {"num", "bool"} -> v.n # 0
    [] v.t = "str" -> v.s # ""
    [] v.t = "list" -> v.l # << >>
    [] v.t = "object" -> TRUE

\* a == b: True and False are the numbers 1 and 0.
Equal(a, b) ==
  IF a.t \in {"num", "bool"} /\ b.t \in {"num", "bool"} THEN a.n = b.n
  ELSE a = b

Digit(d) ==
  CASE d = 0 -> "0" [] d = 1 -> "1" [] d = 2 -> "2" [] d = 3 -> "3"
    [] d = 4 -> "4" [] d = 5 -> "5" [] d = 6 -> "6" [] d = 7 -> "7"
    [] d = 8 -> "8" [] d = 9 -> "9"

RECURSIVE str_nat(_)
str_nat(n) == IF n < 10 THEN Digit(n) ELSE str_nat(n \div 10) \o Digit(n % 10)

\* str(v) and, for the elements of a list, repr(v)
RECURSIVE repr(_)
RECURSIVE join_repr(_)
str(v) ==
  CASE v.t = "nothing" -> "None"
    [] v.t = "bool" -> IF v.n = 1 THEN "True" ELSE "False"
    [] v.t = "num" -> IF v.n < 0 THEN "-" \o str_nat(-v.n) ELSE str_nat(v.n)
    [] v.t = "str" -> v.s
    [] v.t = "list" -> "[" \o join_repr(v.l) \o "]"
    [] v.t = "object" -> "<" \o v.s \o ">"

repr(v) == IF v.t = "str" THEN "'" \o v.s \o "'" ELSE str(v)

join_repr(l) ==
  IF l = << >> THEN ""
  ELSE IF Len(l) = 1 THEN repr(l[1])
  ELSE repr(l[1]) \o ", " \o join_repr(Tail(l))

\* -------------------------------------------------------------- scheduler
\* The scheduler's fields as one value, threaded through the statements of
\* a body.  exc is the exception in flight ("none" when there is none).
Cur ==
  [virtual_time |-> virtual_time, clock |-> clock,
   current_time |-> current_time, after_tasks |-> after_tasks,
   every_tasks |-> every_tasks, jobs |-> jobs, cron_tasks |-> cron_tasks,
   nextId |-> nextId, stats |-> stats, exc |-> "none"]

\* Variant: the virtual clock is left alone.
wait_noop(S, seconds) == S

\* time.sleep(seconds) returns when the wall clock has gone on by seconds.
wait(S, seconds) ==
  IF S.virtual_time THEN [S EXCEPT !.current_time = @ + seconds]
  ELSE [S EXCEPT !.clock = @ + seconds]

\* self.current_time if self.virtual_time else time.time()
timestamp(S) == IF S.virtual_time THEN S.current_time ELSE S.clock

after(S, seconds, body) ==
  [S EXCEPT !.after_tasks = Append(@, [time |-> timestamp(S) + seconds,
                                       body |-> body, rid |-> S.nextId]),
            !.nextId = @ + 1,
            !.stats.areg = @ + 1]

every(S, seconds, body) ==
  [S EXCEPT !.every_tasks = Append(@, [interval |-> seconds, body |-> body,
                                       last_run |-> timestamp(S),
                                       rid |-> S.nextId]),
            !.nextId = @ + 1]

\* self.jobs[name] = {...}: an existing key keeps its place in the dict,
\* a new key goes to the end.  first is history: the registration that
\* put the name into the table.
JobIndex(js, name) ==
  IF \E i \in 1..Len(js) : js[i].name = name
    THEN CHOOSE i \in 1..Len(js) : js[i].name = name
    ELSE 0

\* Variant: a re-registered job is taken out and put at the end.
job_reappend(S, name, seconds, body) ==
  LET i == JobIndex(S.jobs, name)
      rec == [name |-> name, interval |-> seconds, body |-> body,
              last_run |-> timestamp(S), rid |-> S.nextId,
              first |-> IF i = 0 THEN S.nextId ELSE S.jobs[i].first]
  IN [S EXCEPT !.jobs = IF i = 0 THEN Append(@, rec)
                        ELSE Append(SubSeq(@, 1, i - 1)
                                      \o SubSeq(@, i + 1, Len(@)), rec),
               !.nextId = @ + 1]

job(S, name, seconds, body) ==
  LET i == JobIndex(S.jobs, name)
      rec == [name |-> name, interval |-> seconds, body |-> body,
              last_run |-> timestamp(S), rid |-> S.nextId,
              first |-> IF i = 0 THEN S.nextId ELSE S.jobs[i].first]
  IN [S EXCEPT !.jobs = IF i = 0 THEN Append(@, rec)
                                 ELSE [@ EXCEPT ![i] = rec],
               !.nextId = @ + 1]

stop_job(S, name) ==
  LET i == JobIndex(S.jobs, name)
  IN IF i = 0 THEN S
     ELSE [S EXCEPT !.jobs = SubSeq(@, 1, i - 1) \o SubSeq(@, i + 1, Len(@))]

\* reg and fires of a cron task are history: the time of its registration
\* and the number of times its body was dispatched.
\* parse_cron: the friendly phrases first, then five blank-separated fields.
parse_cron(schedule) ==
  CASE schedule = "every minute" ->
         [minute |-> "*", hour |-> "*", day |-> "*", month |-> "*",
          dow |-> "*"]
    [] schedule = "every hour" ->
         [minute |-> "0", hour |-> "*", day |-> "*", month |-> "*",
          dow |-> "*"]
    [] schedule = "1 * * * *" ->
         [minute |-> "1", hour |-> "*", day |-> "*", month |-> "*",
          dow |-> "*"]
    [] schedule = "* 1 * * *" ->
         [minute |-> "*", hour |-> "1", day |-> "*", month |-> "*",
          dow |-> "*"]

cron(S, schedule, body) ==
  [S EXCEPT !.cron_tasks = Append(@, [schedule |-> schedule,
                                      cron_fields |-> parse_cron(schedule),
                                      body |-> body, rid |-> S.nextId,
                                      reg |-> timestamp(S), fires |-> 0]),
            !.nextId = @ + 1]

\* datetime.fromtimestamp(t), for the days around the epoch (a Thursday).
fromtimestamp(t) ==
  LET d == t \div SecondsPerDay
  IN [minute |-> (t \div SecondsPerMinute) % 60,
      hour |-> (t \div SecondsPerHour) % 24,
      day |-> IF d = 0 THEN 1 ELSE 31,
      month |-> IF d = 0 THEN 1 ELSE 12,
      weekday |-> (3 + d) % 7]

\* int(field) of matches_cron; a field that is no numeral gives ValueError.
Numerals == {"0", "1", "2"}
int(field) == CASE field = "0" -> 0 [] field = "1" -> 1 [] field = "2" -> 2

matches(value, field) ==
  IF field = "*" THEN TRUE
  ELSE IF field \in Numerals THEN int(field) = value
  ELSE FALSE

matches_cron(dt, fields) ==
  /\ matches(dt.minute, fields.minute)
  /\ matches(dt.hour, fields.hour)
  /\ matches(dt.day, fields.day)
  /\ matches(dt.month, fields.month)
  /\ matches(dt.weekday, fields.dow)

\* ------------------------------------------------------------ interpreter
\* Interpreter.execute on one statement.  A denied permission check raises
\* RuntimeError, which execute prints and swallows (debug is off); a stop
\* statement raises StopSignal, which execute re-raises; the NameError of an
\* undefined variable is no RuntimeError and leaves execute as well.
execute_wait(S, node) ==
  IF check_timers(perms) THEN wait(S, node.seconds) ELSE S

execute_after(S, node) ==
  IF check_timers(perms) THEN after(S, node.seconds, node.body) ELSE S

execute_every(S, node) ==
  IF check_timers(perms) THEN every(S, node.seconds, node.body) ELSE S

execute_job(S, node) ==
  IF check_timers(perms) THEN job(S, node.name, node.seconds, node.body)
  ELSE S

execute_stop_job(S, node) == stop_job(S, node.name)

execute_cron(S, node) ==
  IF check_cron(perms) THEN cron(S, node.schedule, node.body) ELSE S

RECURSIVE RunBody(_, _)

\* A call statement with no arguments: the statements of the function.
call_statement(S, node) == RunBody(S, FunctionBody(node.name))

execute(S, node) ==
  CASE node.op = "say" -> S
    [] node.op = "say_undefined" -> [S EXCEPT !.exc = "NameError"]
    [] node.op = "stop" -> [S EXCEPT !.exc = "StopSignal"]
    [] node.op = "wait" -> execute_wait(S, node)
    [] node.op = "after" -> execute_after(S, node)
    [] node.op = "every" -> execute_every(S, node)
    [] node.op = "job" -> execute_job(S, node)
    [] node.op = "stop_job" -> execute_stop_job(S, node)
    [] node.op = "cron" -> execute_cron(S, node)
    [] node.op = "call" -> call_statement(S, node)

\* for stmt in task['body']: interpreter.execute(stmt) -- the first
\* exception ends the loop.
RunBody(S, stmts) ==
  IF stmts = << >> \/ S.exc # "none" THEN S
  ELSE RunBody(execute(S, Head(stmts)), Tail(stmts))

\* Variant: the control signals are not derived from Exception.
ExceptException_errors(exc) == exc \in {"RuntimeError", "NameError"}

\* except Exception: every signal and error class derives from Exception.
ExceptException(exc) == exc \in {"StopSignal", "RuntimeError", "NameError"}

\* ------------------------------------------------- the language: AST nodes
\* Expressions carry their class in node, statements their kind in op.
NumberLiteral(v) == [node |-> "NumberLiteral", value |-> Num(v)]
StringLiteral(v) == [node |-> "StringLiteral", value |-> Str(v)]
BooleanLiteral(v) == [node |-> "BooleanLiteral", value |-> Bool(v)]
Literal(v) == [node |-> "Literal", value |-> v]
Identifier(name) == [node |-> "Identifier", name |-> name]
BinaryOp(left, op, right) ==
  [node |-> "BinaryOp", left |-> left, op |-> op, right |-> right]
ListLiteral(elements) == [node |-> "ListLiteral", elements |-> elements]
FunctionCall(name, args) ==
  [node |-> "FunctionCall", op |-> "call", name |-> name, args |-> args]
FilterExpression(list_expr, condition) ==
  [node |-> "FilterExpression", list_expr |-> list_expr,
   condition |-> condition]
MapExpression(list_expr, transform) ==
  [node |-> "MapExpression", list_expr |-> list_expr,
   transform |-> transform]
GetRequest(url, params) ==
  [node |-> "GetRequest", url |-> url, params |-> params]
PostRequest(url, params) ==
  [node |-> "PostRequest", url |-> url, params |-> params]
ReadFile(filename) == [node |-> "ReadFile", filename |-> filename]
CreateCanvas(width, height) ==
  [node |-> "CreateCanvas", width |-> width, height |-> height]
PythonCall(module_attr, args) ==
  [node |-> "PythonCall", module_attr |-> module_attr, args |-> args]

Assignment(target, value) ==
  [op |-> "assign", target |-> target, value |-> value]
Mutation(target, mop, value) ==
  [op |-> "mutate", target |-> target, mop |-> mop, value |-> value]
SayStatement(parts) == [op |-> "say_parts", parts |-> parts]
IfStatement(condition, then_block, else_block) ==
  [op |-> "if", condition |-> condition, then_block |-> then_block,
   else_block |-> else_block]
RepeatTimes(count, body) == [op |-> "repeat", count |-> count, body |-> body]
DoUntil(body, condition) ==
  [op |-> "do_until", body |-> body, condition |-> condition]
BreakStatement == [op |-> "break"]
ContinueStatement == [op |-> "continue"]
FunctionDef(name, params, body) ==
  [op |-> "define", name |-> name, params |-> params, body |-> body]
ReturnStatement(value) == [op |-> "return", value |-> value]
WriteFile(content, filename) ==
  [op |-> "write_file", content |-> content, filename |-> filename]
DrawCircle(x, y, size, color) ==
  [op |-> "draw", shape |-> "circle", args |-> << x, y, size >>,
   color |-> color]
DrawRectangle(x1, y1, x2, y2, color) ==
  [op |-> "draw", shape |-> "rectangle", args |-> << x1, y1, x2, y2 >>,
   color |-> color]
DrawLine(x1, y1, x2, y2, color) ==
  [op |-> "draw", shape |-> "line", args |-> << x1, y1, x2, y2 >>,
   color |-> color]
WhenMouseClicks(canvas, body) ==
  [op |-> "when_mouse_clicks", canvas |-> canvas, body |-> body]
UseStatement(package_name) == [op |-> "use", package_name |-> package_name]
InstallStatement(package_name) ==
  [op |-> "install", package_name |-> package_name]
UsePython(module_name, alias) ==
  [op |-> "use_python", module_name |-> module_name, alias |-> alias]
ServerBlock(port, handlers) ==
  [op |-> "server", port |-> port, handlers |-> handlers]

\* ------------------------------------------------------ the runtime scope
\* A Runtime object: its variables, its functions, and as history the name
\* and closure_env of the function whose call made it.
Runtime(variables, functions, fn, closure) ==
  [variables |-> variables, functions |-> functions, fn |-> fn,
   closure |-> closure]

\* The frame self.runtime of an interpreter whose frames are fs.
Top(fs) == fs[Len(fs)]

\* Runtime.has / Runtime.get: the nearest frame, from the current one up the
\* parents, that holds the name; 0 when there is none.
Holder(fs, name) ==
  IF \E i \in 1..Len(fs) : name \in DOMAIN fs[i].variables
    THEN CHOOSE i \in 1..Len(fs) :
           /\ name \in DOMAIN fs[i].variables
           /\ \A j \in (i + 1)..Len(fs) : name \notin DOMAIN fs[j].variables
    ELSE 0

has(fs, name) == Holder(fs, name) # 0

get(fs, name) == fs[Holder(fs, name)].variables[name]

\* Variant: an assignment rebinds the nearest frame that holds the name.
set_walkup(fs, name, value) ==
  LET i == IF has(fs, name) THEN Holder(fs, name) ELSE Len(fs)
  IN [fs EXCEPT ![i].variables = (name :> value) @@ @]

\* Runtime.set: self.variables[name] = value
set(fs, name, value) ==
  [fs EXCEPT ![Len(fs)].variables = (name :> value) @@ @]

\* self.runtime.variables.pop(name, None)
pop(fs, name) ==
  [fs EXCEPT ![Len(fs)].variables =
     [x \in DOMAIN @ \ {name} |-> @[x]]]

FunctionHolder(fs, name) ==
  IF \E i \in 1..Len(fs) : name \in DOMAIN fs[i].functions
    THEN CHOOSE i \in 1..Len(fs) :
           /\ name \in DOMAIN fs[i].functions
           /\ \A j \in (i + 1)..Len(fs) : name \notin DOMAIN fs[j].functions
    ELSE 0

get_function(fs, name) == fs[FunctionHolder(fs, name)].functions[name]

define_function(fs, name, func) ==
  [fs EXCEPT ![Len(fs)].functions = (name :> func) @@ @]

\* Runtime.child_scope: a frame whose parent is the current frame, with a
\* copy of the current frame's functions.
child_scope(fs, func) ==
  Append(fs, Runtime(<< >>, Top(fs).functions, func.name, func.closure_env))

\* --------------------------------------------------- the interpreter state
\* The interpreter in the middle of a statement: the frames, the streams,
\* the scheduler, the exception in flight (sig, with msg, and val for the
\* value of a return), the value of the expression just evaluated, and as
\* history the blocks the statement is nested in (ctx) and hist.
NoHist ==
  [nev |-> 0, raised |-> << >>, reads |-> << >>, calls |-> << >>,
   items |-> << >>, bools |-> << >>, gates |-> << >>, stopped |-> FALSE,
   stop_ctx |-> << >>, after_stop |-> 0, loops |-> << >>]

Ok(L) == L.sig = "none"

Value(L, v) == [L EXCEPT !.val = v]

\* raise an error ...
Raise(L, sig, msg) ==
  [L EXCEPT !.sig = sig, !.msg = msg,
            !.hist.raised = Append(@, [sig |-> sig, msg |-> msg])]

\* ... or a control signal
Signal(L, sig) == [L EXCEPT !.sig = sig, !.msg = ""]

\* print(text, file=self.output_stream); kind tells the message of a caught
\* error, the output of the program and the trace of a collaborator apart.
Emit(L, kind, text) ==
  [L EXCEPT !.out = Append(@, [kind |-> kind, text |-> text])]

\* a call of a collaborator
Invoke(L, what) == [L EXCEPT !.io = Append(@, what)]

\* History of a capability-gated operation that began in L and ended in R:
\* whether its check passed, and what it did.
Gate(L, R, op, passed) ==
  [R EXCEPT !.hist.gates =
     Append(@, [op |-> op, passed |-> passed,
                io |-> Len(R.io) - Len(L.io),
                out |-> Len(R.out) - Len(L.out),
                sch |-> R.sch # L.sch,
                denied_msg |-> IF passed THEN "" ELSE R.msg])]

\* ---------------------------------------------------------- the evaluator
\* evaluate is Interpreter.evaluate and Execute is Interpreter.execute on
\* the whole language (execute above is its part for the statements of the
\* scheduler); debug is off.
RECURSIVE evaluate(_, _)
RECURSIVE Execute(_, _)
RECURSIVE ExecBlock(_, _)
RECURSIVE evaluate_list(_, _, _)
RECURSIVE filter_loop(_, _, _, _, _)
RECURSIVE repeat_loop(_, _, _)
RECURSIVE do_loop(_, _, _, _)

\* [self.evaluate(x) for x in exprs]
evaluate_list(L, exprs, acc) ==
  IF exprs = << >> THEN Value(L, List(acc))
  ELSE LET Rest(R) ==
             IF Ok(R) THEN evaluate_list(R, Tail(exprs), Append(acc, R.val))
             ELSE R
       IN Rest(evaluate(L, Head(exprs)))

\* self.runtime.get(node.name).  History: a name read in a call that the
\* frame of the call does not hold, with the frame that holds it (frame 1
\* is the frame of the main program) and what closure_env holds for it.
evaluate_identifier(L, e) ==
  LET fs == L.frames
      top == Top(fs)
      R == IF has(fs, e.name) THEN Value(L, get(fs, e.name))
           ELSE Raise(L, "NameError",
                      "Variable '" \o e.name \o "' not defined")
  IN IF Len(fs) > 1 /\ e.name \notin DOMAIN top.variables
       THEN [R EXCEPT !.hist.reads =
               Append(@, [fn |-> top.fn, name |-> e.name,
                          found |-> has(fs, e.name),
                          holder |-> Holder(fs, e.name),
                          val |-> IF has(fs, e.name) THEN get(fs, e.name)
                                  ELSE Nothing,
                          captured |-> e.name \in DOMAIN top.closure,
                          cval |-> IF e.name \in DOMAIN top.closure
                                     THEN top.closure[e.name]
                                     ELSE Nothing])]
       ELSE R

Numeric(v) == v.t \in {"num", "bool"}

\* The operators of evaluate_binary_op on two values.  Of the operand types
\* Python accepts, numbers, strings and lists are modelled for plus and
\* numbers for the rest; the quotients of the programs here are whole.
apply_binary(L, op, a, b) ==
  CASE op = "plus" ->
         IF Numeric(a) /\ Numeric(b) THEN Value(L, Num(a.n + b.n))
         ELSE IF a.t = "str" /\ b.t = "str" THEN Value(L, Str(a.s \o b.s))
         ELSE IF a.t = "list" /\ b.t = "list"
           THEN Value(L, List(a.l \o b.l))
         ELSE Raise(L, "TypeError", "unsupported operand type(s) for +")
    [] op = "minus" ->
         IF Numeric(a) /\ Numeric(b) THEN Value(L, Num(a.n - b.n))
         ELSE Raise(L, "TypeError", "unsupported operand type(s) for -")
    [] op = "times" ->
         IF Numeric(a) /\ Numeric(b) THEN Value(L, Num(a.n * b.n))
         ELSE Raise(L, "TypeError", "unsupported operand type(s) for *")
    [] op = "divided_by" ->
         IF Equal(b, Num(0)) THEN Raise(L, "RuntimeError", "Division by zero")
         ELSE IF Numeric(a) /\ Numeric(b) THEN Value(L, Num(a.n \div b.n))
         ELSE Raise(L, "TypeError", "unsupported operand type(s) for /")
    [] op = "equals" -> Value(L, Bool(Equal(a, b)))
    [] op = "does_not_equal" -> Value(L, Bool(~Equal(a, b)))
    [] op \in {"is_greater_than", "is_less_than", "is_at_least",
               "is_at_most"} ->
         IF Numeric(a) /\ Numeric(b)
           THEN Value(L, Bool(CASE op = "is_greater_than" -> a.n > b.n
                                [] op = "is_less_than" -> a.n < b.n
                                [] op = "is_at_least" -> a.n >= b.n
                                [] op = "is_at_most" -> a.n <= b.n))
           ELSE Raise(L, "TypeError", "comparison not supported")
    [] op = "and" -> Value(L, IF Truthy(a) THEN b ELSE a)
    [] op = "or" -> Value(L, IF Truthy(a) THEN a ELSE b)
    [] OTHER -> Raise(L, "RuntimeError", "Unknown binary operator: " \o op)

\* left = self.evaluate(node.left); right = self.evaluate(node.right); then
\* the operator.  History, for and/or: the left value, the number of
\* evaluate calls and the output before and after the right operand.
evaluate_binary_op(L, e) ==
  LET Operator(A, B, R) ==
        IF e.op \in {"and", "or"}
          THEN [R EXCEPT !.hist.bools =
                  Append(@, [op |-> e.op, left |-> A.val,
                             nev_left |-> A.hist.nev, nev_end |-> B.hist.nev,
                             out_left |-> Len(A.out), out_end |-> Len(B.out),
                             raised_left |-> Len(A.hist.raised),
                             raised_end |-> Len(B.hist.raised),
                             ok |-> Ok(R), res |-> R.val])]
          ELSE R
      Right(A, B) ==
        Operator(A, B, IF Ok(B) THEN apply_binary(B, e.op, A.val, B.val)
                       ELSE B)
      Left(A) == IF ~Ok(A) THEN A ELSE Right(A, evaluate(A, e.right))
  IN Left(evaluate(L, e.left))

evaluate_unary_op(L, e) ==
  LET Operator(A) ==
        IF ~Ok(A) THEN A
        ELSE IF e.op = "not" THEN Value(A, Bool(~Truthy(A.val)))
        ELSE Raise(A, "RuntimeError", "Unknown unary operator: " \o e.op)
  IN Operator(evaluate(L, e.operand))

\* Variant: no name is a builtin.
BUILTINS_none == {}

\* The names of builtin_stdlib.BUILTINS; the programs here call abs.
BUILTINS ==
  { "random", "random_int", "floor", "ceil", "round", "abs", "sqrt", "sin",
    "cos", "tan", "pow", "log", "max", "min", "sum", "len", "range",
    "type_of", "to_string", "to_number", "print_table" }

builtin_abs(L, args) ==
  IF Len(args) = 1 /\ Numeric(args[1])
    THEN Value(L, Num(IF args[1].n < 0 THEN -args[1].n ELSE args[1].n))
    ELSE Raise(L, "TypeError", "bad operand type for abs()")

\* The variables of a chain of frames.
Bindings(fs) == [i \in 1..Len(fs) |-> fs[i].variables]

\* Variant: the frame of the call stays the current one.
old_runtime_kept(fs, n) == fs

\* finally: self.runtime = old_runtime, the frame that was current when
\* the frame of the call was made, n frames deep.
old_runtime(fs, n) == SubSeq(fs, 1, n)

\* evaluate_function_call, lines 185-206: the part inside try.  The frame
\* of the call is a child of the frame the call is made in.  History: the
\* bindings of the caller's frames when the frame of the call was made and
\* when the call was over, the variables the call left in its frame, and
\* the depth of the current frame before the call and after it.
call_function(L, e) ==
  LET func == get_function(L.frames, e.name)
      bound(args) ==
        [p \in { func.params[i] : i \in 1..Len(func.params) } |->
           LET i == CHOOSE i \in 1..Len(func.params) :
                      /\ func.params[i] = p
                      /\ \A j \in (i + 1)..Len(func.params) :
                           func.params[j] # p
           IN IF i <= Len(args) THEN args[i] ELSE Nothing]
      Enter(A, child) ==
        [A EXCEPT !.frames = [child EXCEPT ![Len(child)].variables =
                                             bound(A.val.l)],
                  !.ctx = Append(@, "call")]
      Leave(A, B, n) ==
        [B EXCEPT !.frames = old_runtime(@, n), !.ctx = A.ctx,
                  !.sig = IF @ = "ReturnSignal" THEN "none" ELSE @,
                  !.val = IF B.sig = "none" THEN Nothing ELSE @,
                  !.hist.calls =
                    Append(@, [fn |-> e.name,
                               before |-> Bindings(A.frames),
                               after |-> Bindings(SubSeq(B.frames, 1, n)),
                               local |-> B.frames[n + 1].variables,
                               caller |-> n,
                               scope |-> Len(old_runtime(B.frames, n)),
                               sig |-> B.sig])]
      Called(A) ==
        IF ~Ok(A) THEN A
        ELSE Leave(A, ExecBlock(Enter(A, child_scope(A.frames, func)),
                                func.body),
                   Len(A.frames))
  IN IF FunctionHolder(L.frames, e.name) = 0
       THEN Raise(L, "NameError", "Function '" \o e.name \o "' not defined")
     ELSE Called(evaluate_list(L, e.args, << >>))

evaluate_function_call(L, e) ==
  IF e.name \in BUILTINS
    THEN LET Builtin(A) == IF Ok(A) THEN builtin_abs(A, A.val.l) ELSE A
         IN Builtin(evaluate_list(L, e.args, << >>))
    ELSE LET Except(R) ==
               IF R.sig = "NameError"
                 THEN Raise(R, "RuntimeError",
                            "Function '" \o e.name \o "' not defined")
                 ELSE R
         IN Except(call_function(L, e))

\* The loop of evaluate_filter (keep = TRUE) and of evaluate_map.
filter_loop(L, items, expr, keep, result) ==
  IF items = << >> THEN Value(L, List(result))
  ELSE LET vs == Top(L.frames).variables
           old_item == IF "item" \in DOMAIN vs THEN vs["item"] ELSE Nothing
           Restore(C) ==
             [C EXCEPT !.frames = IF old_item # Nothing
                                    THEN set(@, "item", old_item)
                                    ELSE pop(@, "item")]
           Iterate(C) ==
             IF ~Ok(C) THEN C
             ELSE filter_loop(Restore(C), Tail(items), expr, keep,
                              IF keep
                                THEN IF Truthy(C.val)
                                       THEN Append(result, Head(items))
                                       ELSE result
                                ELSE Append(result, C.val))
       IN Iterate(evaluate([L EXCEPT !.frames =
                                       set(@, "item", Head(items))], expr))

\* The body shared by evaluate_filter and evaluate_map.  History: the
\* binding of item in the current frame before the expression and after it.
comprehension(L, e, keep) ==
  LET Looped(A, R, v0, v1) ==
        [R EXCEPT !.hist.items =
           Append(@, [had |-> "item" \in DOMAIN v0,
                      old |-> IF "item" \in DOMAIN v0 THEN v0["item"]
                              ELSE Nothing,
                      has |-> "item" \in DOMAIN v1,
                      new |-> IF "item" \in DOMAIN v1 THEN v1["item"]
                              ELSE Nothing,
                      n |-> Len(A.val.l),
                      ok |-> Ok(R)])]
      Loop(A, R) ==
        Looped(A, R, Top(A.frames).variables, Top(R.frames).variables)
      Items(A) ==
        IF ~Ok(A) THEN A
        ELSE IF A.val.t # "list"
          THEN Raise(A, "RuntimeError",
                     IF keep THEN "filter expects a list"
                     ELSE "map expects a list")
        ELSE Loop(A, filter_loop(A, A.val.l,
                                 IF keep THEN e.condition ELSE e.transform,
                                 keep, << >>))
  IN Items(evaluate(L, e.list_expr))

evaluate_filter(L, e) == comprehension(L, e, TRUE)

evaluate_map(L, e) == comprehension(L, e, FALSE)

\* int(value)
int_value(L, v) ==
  IF Numeric(v) THEN Value(L, Num(v.n))
  ELSE IF v.t = "str" THEN Raise(L, "ValueError", "invalid literal for int()")
  ELSE Raise(L, "TypeError", "int() argument must be a number")

\* [int(self.evaluate(x)) for x in exprs], one after the other
RECURSIVE evaluate_ints(_, _, _)
evaluate_ints(L, exprs, acc) ==
  IF exprs = << >> THEN Value(L, List(acc))
  ELSE LET Rest(I) ==
             IF ~Ok(I) THEN I
             ELSE evaluate_ints(I, Tail(exprs), Append(acc, I.val))
           ToInt(A) == IF ~Ok(A) THEN A ELSE Rest(int_value(A, A.val))
       IN ToInt(evaluate(L, Head(exprs)))

\* requests.get / requests.post behind check_network
evaluate_request(L, e, method) ==
  LET Request(A) ==
        IF ~Ok(A) THEN A
        ELSE IF world.network = "ok"
          THEN Value(Invoke(A, "requests." \o method), Object("json"))
        ELSE Raise(Invoke(A, "requests." \o method), "RuntimeError",
                   "Network request failed")
  IN Gate(L,
          IF ~check_network(perms)
            THEN Raise(L, "RuntimeError", "Network access not allowed")
            ELSE Request(evaluate_list(L, e.params, << >>)),
          method, check_network(perms))

evaluate_read_file(L, e) ==
  LET C == Invoke(L, "open:r")
      R == IF ~check_files(perms)
             THEN Raise(L, "RuntimeError", "File access not allowed")
           ELSE IF world.files = "ok" THEN Value(C, Str("content"))
           ELSE Raise(C, "RuntimeError", "Failed to read file")
  IN Gate(L, R, "read_file", check_files(perms))

\* GraphicsStub.create_canvas reads its local canvas inside the dict that
\* is to become canvas: UnboundLocalError, a NameError.
evaluate_create_canvas(L, e) ==
  LET Create(A) ==
        IF ~Ok(A) THEN A
        ELSE Raise(Invoke(A, "graphics.create_canvas"), "NameError",
                   "local variable 'canvas' referenced before assignment")
  IN Gate(L,
          IF ~check_graphics(perms)
            THEN Raise(L, "RuntimeError", "Graphics access not allowed")
            ELSE Create(evaluate_ints(L, << e.width, e.height >>, << >>)),
          "create_canvas", check_graphics(perms))

\* python.call behind check_python_ffi and the allowlist; module_attr is
\* "module.attr", and of the callables math.floor is modelled.
ALLOWED_MODULES == {"math", "random", "datetime", "re"}

module_name(module_attr) ==
  CASE module_attr = "math.floor" -> "math"
    [] module_attr = "os.getcwd" -> "os"

evaluate_python_call(L, e) ==
  LET Callable(A) ==
        IF ~Ok(A) THEN A
        ELSE IF Len(A.val.l) = 1 /\ Numeric(A.val.l[1])
          THEN Value(Invoke(A, "python:" \o e.module_attr),
                     Num(A.val.l[1].n))
        ELSE Raise(Invoke(A, "python:" \o e.module_attr), "RuntimeError",
                   "Python call failed")
  IN Gate(L,
          IF ~check_python_ffi(perms)
            THEN Raise(L, "RuntimeError", "Python interop not allowed")
          ELSE IF module_name(e.module_attr) \notin ALLOWED_MODULES
            THEN Raise(L, "RuntimeError", "Module not in allowlist")
          ELSE Callable(evaluate_list(L, e.args, << >>)),
          "python_call", check_python_ffi(perms))

\* Interpreter.evaluate: the dispatch on the class of the node inside try,
\* and except RuntimeError: the message is printed and the value is None.
evaluate(L0, e) ==
  LET L == [L0 EXCEPT !.hist.nev = @ + 1]
      Except(R) ==
        IF R.sig = "RuntimeError"
          THEN [Emit(R, "error", R.msg) EXCEPT !.sig = "none",
                                              !.val = Nothing]
          ELSE R
      Try == CASE e.node \in {"NumberLiteral", "StringLiteral",
                            "BooleanLiteral", "Literal"} ->
                  Value(L, e.value)
             [] e.node = "NothingLiteral" -> Value(L, Nothing)
             [] e.node = "Identifier" -> evaluate_identifier(L, e)
             [] e.node = "BinaryOp" -> evaluate_binary_op(L, e)
             [] e.node = "UnaryOp" -> evaluate_unary_op(L, e)
             [] e.node = "ListLiteral" -> evaluate_list(L, e.elements, << >>)
             [] e.node = "FunctionCall" -> evaluate_function_call(L, e)
             [] e.node = "FilterExpression" -> evaluate_filter(L, e)
             [] e.node = "MapExpression" -> evaluate_map(L, e)
             [] e.node = "GetRequest" -> evaluate_request(L, e, "get")
             [] e.node = "PostRequest" -> evaluate_request(L, e, "post")
             [] e.node = "ReadFile" -> evaluate_read_file(L, e)
             [] e.node = "CreateCanvas" -> evaluate_create_canvas(L, e)
             [] e.node = "PythonCall" -> evaluate_python_call(L, e)
             [] OTHER -> Raise(L, "RuntimeError", "Unknown expression type")
  IN Except(Try)

\* --------------------------------------------------------- the statements
\* execute_assignment / set_target on a plain variable
execute_assignment(L, node) ==
  LET Set(V) ==
        IF Ok(V) THEN [V EXCEPT !.frames = set(@, node.target, V.val)] ELSE V
  IN Set(evaluate(L, node.value))

\* execute_mutation: becomes, increase by, decrease by; get_target reads
\* the variable through the parents, set_target writes the current frame.
execute_mutation(L, node) ==
  LET Set(R) ==
        IF ~Ok(R) THEN R
        ELSE [R EXCEPT !.frames = set(@, node.target, R.val)]
      Operator(V, G) ==
        IF ~Ok(G) THEN G
        ELSE Set(apply_binary(G, IF node.mop = "increase" THEN "plus"
                                 ELSE "minus", G.val, V.val))
      Target(V) ==
        IF ~Ok(V) THEN V
        ELSE IF node.mop = "becomes" THEN Set(V)
        ELSE Operator(V, IF has(V.frames, node.target)
                           THEN Value(V, get(V.frames, node.target))
                           ELSE Raise(V, "NameError",
                                      "Variable '" \o node.target
                                        \o "' not defined"))
  IN Target(evaluate(L, node.value))

RECURSIVE join_str(_)
join_str(vs) == IF vs = << >> THEN "" ELSE str(Head(vs)) \o join_str(Tail(vs))

execute_say(L, node) ==
  LET Say(A) == IF Ok(A) THEN Emit(A, "say", join_str(A.val.l)) ELSE A
  IN Say(evaluate_list(L, node.parts, << >>))

\* History of a block: ctx holds the kinds of the blocks around a statement.
Block(L, kind, stmts) ==
  [ExecBlock([L EXCEPT !.ctx = Append(@, kind)], stmts) EXCEPT
     !.ctx = L.ctx]

execute_if(L, node) ==
  LET Branch(C) ==
        IF ~Ok(C) THEN C
        ELSE Block(C, "if", IF Truthy(C.val) THEN node.then_block
                            ELSE node.else_block)
  IN Branch(evaluate(L, node.condition))

\* Variant: a loop takes stop for break.
LoopBreaks_stop(sig) == sig \in {"BreakSignal", "StopSignal"}

\* except BreakSignal: break
LoopBreaks(sig) == sig = "BreakSignal"

\* for _ in range(count): the body; break and continue are consumed, any
\* other exception leaves the loop.
repeat_loop(L, count, body) ==
  IF count <= 0 THEN L
  ELSE LET Iterate(B) ==
             IF LoopBreaks(B.sig) THEN Signal(B, "none")
             ELSE IF B.sig \in {"none", "ContinueSignal"}
               THEN repeat_loop(Signal(B, "none"), count - 1, body)
             ELSE B
       IN Iterate(Block(L, "loop", body))

execute_repeat_times(L, node) ==
  LET Loop(I) == IF ~Ok(I) THEN I ELSE repeat_loop(I, I.val.n, node.body)
      Count(C) == IF ~Ok(C) THEN C ELSE Loop(int_value(C, C.val))
  IN Count(evaluate(L, node.count))

\* while True: the body; except BreakSignal: break; except ContinueSignal:
\* continue; then the condition, and break if it is truthy.  History of a
\* loop that is left: the number of times its body was executed, the
\* values of its condition, and what ended it.
do_loop(L, node, bodies, conds) ==
  LET Left(R, cs, how) ==
        [R EXCEPT !.hist.loops =
           Append(@, [bodies |-> bodies + 1, conds |-> cs, how |-> how])]
      Until(C) ==
        IF ~Ok(C) THEN Left(C, conds, "raise")
        ELSE IF Truthy(C.val) THEN Left(C, Append(conds, TRUE), "condition")
        ELSE do_loop(C, node, bodies + 1, Append(conds, FALSE))
      Ran(B) ==
        IF LoopBreaks(B.sig) THEN Left(Signal(B, "none"), conds, "break")
        ELSE IF B.sig = "ContinueSignal"
          THEN do_loop(Signal(B, "none"), node, bodies + 1, conds)
        ELSE IF B.sig = "none" THEN Until(evaluate(B, node.condition))
        ELSE Left(B, conds, "raise")
  IN Ran(Block(L, "loop", node.body))

execute_do_until(L, node) == do_loop(L, node, 0, << >>)

\* closure_env is a copy of the variables of the current frame.
execute_function_def(L, node) ==
  [L EXCEPT !.frames =
     define_function(@, node.name,
                     [name |-> node.name, params |-> node.params,
                      body |-> node.body,
                      closure_env |-> Top(L.frames).variables])]

execute_return(L, node) ==
  LET Return(V) == IF Ok(V) THEN Signal(V, "ReturnSignal") ELSE V
  IN Return(evaluate(L, node.value))

\* raise StopSignal().  History: that it was raised, and inside what.
execute_stop(L) ==
  [Signal(L, "StopSignal") EXCEPT !.hist.stopped = TRUE,
                                  !.hist.stop_ctx = L.ctx]

\* execute_wait, execute_after, execute_every, execute_job, execute_cron:
\* the check, then the call of the scheduler.
execute_timer(L, node) ==
  LET passed == IF node.op = "cron" THEN check_cron(perms)
                ELSE check_timers(perms)
      R == IF passed THEN [L EXCEPT !.sch = execute(@, node)]
           ELSE Raise(L, "RuntimeError",
                      IF node.op = "cron" THEN "Cron access not allowed"
                      ELSE "Timer access not allowed")
  IN Gate(L, R, node.op, passed)

execute_write_file(L, node) ==
  LET Write(A) ==
        IF ~Ok(A) THEN A
        ELSE IF world.files = "ok" THEN Invoke(A, "open:w")
        ELSE Raise(Invoke(A, "open:w"), "RuntimeError",
                   "Failed to write file")
  IN Gate(L,
          IF ~check_files(perms)
            THEN Raise(L, "RuntimeError", "File access not allowed")
            ELSE Write(evaluate(L, node.content)),
          "write_file", check_files(perms))

\* execute_draw_circle, execute_draw_rectangle, execute_draw_line: the
\* check, the coordinates, then the method of the graphics stub, which
\* prints its trace.
execute_draw(L, node) ==
  LET Draw(A) ==
        IF ~Ok(A) THEN A
        ELSE Emit(Invoke(A, "graphics.draw_" \o node.shape), "trace",
                  "[canvas] " \o node.shape)
  IN Gate(L,
          IF ~check_graphics(perms)
            THEN Raise(L, "RuntimeError", "Graphics access not allowed")
            ELSE Draw(evaluate_ints(L, node.args, << >>)),
          "draw", check_graphics(perms))

execute_when_mouse_clicks(L, node) ==
  LET Register(A) ==
        IF ~Ok(A) THEN A
        ELSE Emit(Invoke(A, "graphics.register_mouse_click"), "trace",
                  "[event] registered mouse click handler")
  IN Gate(L,
          IF ~check_graphics(perms)
            THEN Raise(L, "RuntimeError", "Graphics access not allowed")
            ELSE Register(evaluate(L, node.canvas)),
          "when_mouse_clicks", check_graphics(perms))

\* The file of the package "pkg" of the standard library.
PackageFile == << Assignment("loaded", BooleanLiteral(TRUE)) >>

\* PackageManager.use: the check, then the file of the package is looked
\* up, and its statements are executed by the interpreter that uses it.
execute_use(L, node) ==
  LET C == Invoke(L, "packages.lookup")
      R == IF ~check_packages(perms)
             THEN Raise(L, "RuntimeError", "Package access not allowed")
           ELSE IF world.packages = "stdlib"
             THEN ExecBlock(Invoke(C, "open:r"), PackageFile)
           ELSE Raise(C, "RuntimeError",
                      "Package '" \o node.package_name
                        \o "' not found. Install it first.")
  IN Gate(L, R, "use", check_packages(perms))

\* PackageManager.install: the check, then a local path is copied and a
\* registry name is refused.
execute_install(L, node) ==
  LET C == Invoke(L, "packages.resolve")
      R == IF ~check_packages(perms)
             THEN Raise(L, "RuntimeError", "Package access not allowed")
           ELSE IF node.package_name # "./pkg"
             THEN Raise(L, "RuntimeError", "Registry URL not configured")
           ELSE IF world.files = "ok"
             THEN Emit(Invoke(C, "shutil.copytree"), "trace", "Installed pkg")
           ELSE Raise(C, "RuntimeError", "Package path not found: ./pkg")
  IN Gate(L, R, "install", check_packages(perms))

execute_use_python(L, node) ==
  LET R == IF ~check_python_ffi(perms)
             THEN Raise(L, "RuntimeError", "Python interop not allowed")
           ELSE IF node.module_name \notin ALLOWED_MODULES
             THEN Raise(L, "RuntimeError", "Module not in allowlist")
           ELSE [Invoke(L, "import " \o node.module_name) EXCEPT
                   !.frames = set(@, node.alias, Object(node.module_name))]
  IN Gate(L, R, "use_python", check_python_ffi(perms))

\* execute_server and GraphicsStub.start_server: the check, the port, then
\* the server, which serves forever unless its port cannot be bound.
execute_server(L, node) ==
  LET Serve(A) ==
        IF ~Ok(A) THEN A
        ELSE IF world.port = "free"
          THEN Signal(Emit(Invoke(A, "HTTPServer"), "trace",
                           "[server] started"), "Serving")
        ELSE Emit(Invoke(A, "HTTPServer"), "trace", "[server] error")
  IN Gate(L,
          IF ~check_server(perms)
            THEN Raise(L, "RuntimeError", "Server access not allowed")
            ELSE Serve(evaluate_ints(L, << node.port >>, << >>)),
          "server", check_server(perms))

\* Interpreter.execute: the dispatch on the class of the statement inside
\* try; the control signals are raised again, and except RuntimeError: the
\* message is printed.  History: a statement begun after a stop.
Execute(L0, node) ==
  LET L == IF L0.hist.stopped THEN [L0 EXCEPT !.hist.after_stop = @ + 1]
           ELSE L0
      Except(R) ==
        IF R.sig = "RuntimeError"
          THEN [Emit(R, "error", R.msg) EXCEPT !.sig = "none",
                                              !.val = Nothing]
          ELSE R
      Try == CASE node.op = "assign" -> execute_assignment(L, node)
             [] node.op = "mutate" -> execute_mutation(L, node)
             [] node.op = "say_parts" -> execute_say(L, node)
             [] node.op = "say" ->
                  execute_say(L, SayStatement(<< StringLiteral("x") >>))
             [] node.op = "say_undefined" ->
                  execute_say(L, SayStatement(<< Identifier("undefined") >>))
             [] node.op = "if" -> execute_if(L, node)
             [] node.op = "repeat" -> execute_repeat_times(L, node)
             [] node.op = "do_until" -> execute_do_until(L, node)
             [] node.op = "break" -> Signal(L, "BreakSignal")
             [] node.op = "continue" -> Signal(L, "ContinueSignal")
             [] node.op = "stop" -> execute_stop(L)
             [] node.op = "define" -> execute_function_def(L, node)
             [] node.op = "return" -> execute_return(L, node)
             [] node.op = "write_file" -> execute_write_file(L, node)
             [] node.op = "draw" -> execute_draw(L, node)
             [] node.op = "when_mouse_clicks" ->
                  execute_when_mouse_clicks(L, node)
             [] node.op \in {"wait", "after", "every", "job", "cron"} ->
                  execute_timer(L, node)
             [] node.op = "stop_job" -> [L EXCEPT !.sch = execute(@, node)]
             [] node.op = "use" -> execute_use(L, node)
             [] node.op = "install" -> execute_install(L, node)
             [] node.op = "use_python" -> execute_use_python(L, node)
             [] node.op = "server" -> execute_server(L, node)
             [] node.op = "call" -> evaluate_function_call(L, node)
             [] OTHER -> Raise(L, "RuntimeError", "Unknown statement type")
  IN Except(Try)

\* for stmt in block: self.execute(stmt)
ExecBlock(L, stmts) ==
  IF stmts = << >> \/ ~Ok(L) THEN L
  ELSE ExecBlock(Execute(L, Head(stmts)), Tail(stmts))

\* ----------------------------------------------------------- the programs
\* The programs run_file is given, by name; a program leaves one literal
\* open, which is a.
Call(name, a) == FunctionCall(name, << a >>)

Program(p, a) ==
  CASE p = "rebound" ->
         \* x is 1 / define f with u: return x / x is a / say f 0
         << Assignment("x", NumberLiteral(1)),
            FunctionDef("f", << "u" >>,
                        << ReturnStatement(Identifier("x")) >>),
            Assignment("x", Literal(a)),
            SayStatement(<< Call("f", NumberLiteral(0)) >>) >>
    [] p = "caller_only" ->
         \* define f with u: return y / define g with u: y is a, return f 0
         << FunctionDef("f", << "u" >>,
                        << ReturnStatement(Identifier("y")) >>),
            FunctionDef("g", << "u" >>,
                        << Assignment("y", Literal(a)),
                           ReturnStatement(Call("f", NumberLiteral(0))) >>),
            SayStatement(<< Call("g", NumberLiteral(0)) >>),
            SayStatement(<< StringLiteral("after") >>) >>
    [] p = "shadow" ->
         \* a function that assigns and mutates names of its caller
         << Assignment("x", NumberLiteral(1)),
            Assignment("n", NumberLiteral(5)),
            FunctionDef("f", << "x" >>,
                        << Assignment("x", Literal(a)),
                           Mutation("n", "increase", NumberLiteral(1)),
                           Mutation("n", "decrease", NumberLiteral(3)),
                           Mutation("x", "becomes", Identifier("n")),
                           Assignment("fresh", NumberLiteral(7)),
                           ReturnStatement(Identifier("x")) >>),
            Assignment("y", Call("f", Identifier("x"))),
            SayStatement(<< Identifier("x"), Identifier("n"),
                            Identifier("y") >>) >>
    [] p = "filter" ->
         << Assignment("item", Literal(a)),
            Assignment("xs",
                       FilterExpression(
                         ListLiteral(<< NumberLiteral(1), NumberLiteral(2),
                                        NumberLiteral(3) >>),
                         BinaryOp(Identifier("item"), "is_greater_than",
                                  NumberLiteral(1)))),
            SayStatement(<< Identifier("xs") >>),
            SayStatement(<< Identifier("item") >>) >>
    [] p = "map" ->
         << Assignment("item", Literal(a)),
            Assignment("ys",
                       MapExpression(
                         ListLiteral(<< NumberLiteral(1), NumberLiteral(2) >>),
                         BinaryOp(Identifier("item"), "times",
                                  NumberLiteral(2)))),
            SayStatement(<< Identifier("ys") >>),
            SayStatement(<< Identifier("item") >>) >>
    [] p = "map_unbound" ->
         << Assignment("ys",
                       MapExpression(ListLiteral(<< Literal(a) >>),
                                     Identifier("item"))),
            SayStatement(<< Identifier("ys") >>) >>
    [] p = "division" ->
         << Assignment("x", BinaryOp(NumberLiteral(6), "divided_by",
                                     Literal(a))),
            SayStatement(<< StringLiteral("after") >>) >>
    [] p = "undefined_function" ->
         << Call("nofunc", Literal(a)),
            SayStatement(<< StringLiteral("after") >>) >>
    [] p = "undefined_variable" ->
         << IfStatement(Literal(a), << SayStatement(<< Identifier("nobody") >>) >>,
                        << >>),
            SayStatement(<< StringLiteral("after") >>) >>
    [] p = "type_error" ->
         << Assignment("x", BinaryOp(NumberLiteral(1), "plus", Literal(a))),
            SayStatement(<< StringLiteral("after") >>) >>
    [] p = "stop" ->
         \* a stop inside an if inside a loop inside a function called in
         \* an if inside a loop
         << FunctionDef("halt", << "u" >>,
                        << RepeatTimes(NumberLiteral(2),
                             << IfStatement(Identifier("u"), << StopStmt >>,
                                            << BreakStatement >>),
                                SayStatement(<< StringLiteral("in loop") >>)
                             >>),
                           SayStatement(<< StringLiteral("in call") >>) >>),
            RepeatTimes(NumberLiteral(2),
              << IfStatement(BooleanLiteral(TRUE),
                             << Call("halt", Literal(a)) >>, << >>),
                 SayStatement(<< StringLiteral("in main loop") >>),
                 ContinueStatement,
                 SayStatement(<< StringLiteral("skipped") >>) >>),
            SayStatement(<< StringLiteral("after") >>) >>
    [] p = "short_circuit" ->
         << FunctionDef("side", << "u" >>,
                        << SayStatement(<< StringLiteral("side") >>),
                           ReturnStatement(Identifier("u")) >>),
            Assignment("p", BinaryOp(Literal(a), "and",
                                     Call("side", NumberLiteral(1)))),
            Assignment("q", BinaryOp(Literal(a), "or",
                                     Call("side", NumberLiteral(2)))),
            Assignment("r", BinaryOp(Literal(a), "or",
                                     BinaryOp(NumberLiteral(1), "divided_by",
                                              NumberLiteral(0)))),
            SayStatement(<< Identifier("p"), Identifier("q"),
                            Identifier("r") >>) >>
    [] p = "network" ->
         << Assignment("x", GetRequest("http://h/", << Literal(a) >>)),
            Assignment("y", PostRequest("http://h/", << Literal(a) >>)),
            SayStatement(<< StringLiteral("after") >>) >>
    [] p = "files" ->
         << WriteFile(Literal(a), "f.txt"),
            Assignment("x", ReadFile("f.txt")),
            SayStatement(<< Identifier("x") >>) >>
    [] p = "graphics" ->
         << DrawCircle(Literal(a), NumberLiteral(2), NumberLiteral(3), "red"),
            DrawRectangle(NumberLiteral(0), NumberLiteral(0),
                          NumberLiteral(4), NumberLiteral(4), "red"),
            DrawLine(NumberLiteral(0), NumberLiteral(0), NumberLiteral(4),
                     NumberLiteral(4), "red"),
            WhenMouseClicks(Literal(a), << SayStmt >>),
            Assignment("c", CreateCanvas(NumberLiteral(4), NumberLiteral(4))),
            SayStatement(<< StringLiteral("after") >>) >>
    [] p = "timers" ->
         << WaitStmt(30), AfterStmt(60, "say"), EveryStmt(60, "say"),
            SayStatement(<< Literal(a) >>) >>
    [] p = "jobs" ->
         << JobStmt("b", 0, "say"), CronStmt("every minute", "say"),
            StopJobStmt("b"), SayStatement(<< Literal(a) >>) >>
    [] p = "python" ->
         << UsePython("math", "m"),
            Assignment("x", PythonCall("math.floor", << Literal(a) >>)),
            Assignment("y", PythonCall("os.getcwd", << >>)),
            SayStatement(<< Identifier("x") >>) >>
    [] p = "packages" ->
         << UseStatement("pkg"), InstallStatement("./pkg"),
            InstallStatement("pkg"), SayStatement(<< Literal(a) >>) >>
    [] p = "server" ->
         << ServerBlock(Literal(a), << >>),
            SayStatement(<< StringLiteral("after") >>) >>
    [] p = "do_until" ->
         \* do: n increase by 1; if a and n < 3 then continue; say n
         \* until true; then a loop that breaks and a loop until n >= 5
         << Assignment("n", NumberLiteral(0)),
            DoUntil(<< Mutation("n", "increase", NumberLiteral(1)),
                       IfStatement(
                         BinaryOp(Literal(a), "and",
                                  BinaryOp(Identifier("n"), "is_less_than",
                                           NumberLiteral(3))),
                         << ContinueStatement >>, << >>),
                       SayStatement(<< Identifier("n") >>) >>,
                    BooleanLiteral(TRUE)),
            DoUntil(<< BreakStatement >>, BooleanLiteral(FALSE)),
            DoUntil(<< Mutation("n", "increase", NumberLiteral(1)) >>,
                    BinaryOp(Identifier("n"), "is_at_least",
                             NumberLiteral(5))),
            SayStatement(<< Identifier("n") >>) >>
    [] p = "outcomes" ->
         \* calls that fall through, return, fail and leave with a signal,
         \* one after the other and one inside the other
         << FunctionDef("fall", << "u" >>,
                        << Assignment("x", Identifier("u")) >>),
            FunctionDef("ret", << "u" >>,
                        << ReturnStatement(Identifier("u")) >>),
            FunctionDef("err", << "u" >>,
                        << SayStatement(<< Identifier("nobody") >>) >>),
            FunctionDef("brk", << "u" >>, << BreakStatement >>),
            FunctionDef("cont", << "u" >>,
                        << Call("fall", Identifier("u")),
                           ContinueStatement >>),
            FunctionDef("sum", << "u" >>,
                        << ReturnStatement(
                             BinaryOp(NumberLiteral(1), "plus",
                                      Call("ret", Identifier("u")))) >>),
            Call("fall", Literal(a)),
            SayStatement(<< Call("ret", Literal(a)) >>),
            Call("err", Literal(a)),
            RepeatTimes(NumberLiteral(1), << Call("brk", Literal(a)) >>),
            RepeatTimes(NumberLiteral(2), << Call("cont", Literal(a)) >>),
            Assignment("y", Call("sum", Literal(a))),
            SayStatement(<< StringLiteral("after") >>) >>
    [] p = "builtin" ->
         \* a function named abs is defined in the main program and again
         \* inside a function, and abs is called in both scopes
         << FunctionDef("abs", << "u" >>,
                        << SayStatement(<< StringLiteral("user") >>),
                           ReturnStatement(NumberLiteral(99)) >>),
            FunctionDef("wrap", << "u" >>,
                        << FunctionDef("abs", << "v" >>,
                                       << SayStatement(
                                            << StringLiteral("inner") >>),
                                          ReturnStatement(
                                            NumberLiteral(98)) >>),
                           ReturnStatement(Call("abs", Identifier("u"))) >>),
            Assignment("x", Call("abs", Literal(a))),
            Assignment("y", Call("wrap", BinaryOp(NumberLiteral(0), "minus",
                                                  NumberLiteral(5)))),
            SayStatement(<< Identifier("x"), Identifier("y") >>) >>

Programs ==
  { "rebound", "caller_only", "shadow", "filter", "map", "map_unbound",
    "division", "undefined_function", "undefined_variable", "type_error",
    "stop", "short_circuit", "network", "files", "graphics", "timers",
    "jobs", "python", "packages", "server", "builtin",
    "outcomes", "do_until" }

Args == { Nothing, Bool(FALSE), Bool(TRUE), Num(0), Num(1), Str(""),
          Str("outer") }

\* --perm strings, as the lists of their parts
PermStrings ==
  { << >>, << " Timers" >>, << "CRON " >>, << "graphics" >>, << "state" >>,
    << "network" >>, << "timers", "cron" >>,
    << "network", "files", "graphics", "sound", "packages", "python",
       "server", "timers", "cron" >> }

Worlds ==
  { [network |-> "ok", files |-> "ok", packages |-> "stdlib",
     port |-> "busy"],
    [network |-> "fail", files |-> "fail", packages |-> "missing",
     port |-> "free"] }

\* ------------------------------------------------------------- the driver
\* No program is being run.
\* ------------------------------------------------------------- the lexer
\* The text is a sequence of characters, each a string of length one, and
\* Lexer.pos counts from 1.  NoChar is the None that current_char and peek
\* return past the end of the text.  A token is its type and its value; the
\* line and the column it carries are left out.
NoChar == ""
NoValue == ""
LookBack == 20

Token(type, value) == [type |-> type, value |-> value]

Lowercase ==
  { "a", "b", "c", "d", "e", "f", "g", "h", "i", "j", "k", "l", "m", "n",
    "o", "p", "q", "r", "s", "t", "u", "v", "w", "x", "y", "z" }
Uppercase == { "A", "B", "T" }

isdigit(c) == \E d \in 0..9 : Digit(d) = c
isalpha(c) == c \in Lowercase \cup Uppercase
isalnum(c) == isalpha(c) \/ isdigit(c)
isspace(c) == c \in { " ", "\t", "\n", "\r" }

\* str.lower, for the capitals the sources use
lower_char(c) ==
  CASE c = "A" -> "a" [] c = "B" -> "b" [] c = "T" -> "t" [] OTHER -> c

lower(s) == [i \in 1..Len(s) |-> lower_char(s[i])]

\* The characters of a slice as one string.
RECURSIVE chars_str(_)
chars_str(s) == IF s = << >> THEN "" ELSE Head(s) \o chars_str(Tail(s))

\* self.text[pos:pos+n].lower()
text_at(txt, pos, n) ==
  chars_str(lower(SubSeq(txt, pos,
                         IF pos + n - 1 > Len(txt) THEN Len(txt)
                         ELSE pos + n - 1)))

current_char(txt, pos) == IF pos > Len(txt) THEN NoChar ELSE txt[pos]

peek(txt, pos) == current_char(txt, pos + 1)

RECURSIVE skip_whitespace(_, _)
skip_whitespace(txt, pos) ==
  IF current_char(txt, pos) \in { " ", "\t", "\r" }
    THEN skip_whitespace(txt, pos + 1)
    ELSE pos

RECURSIVE skip_comment(_, _)
skip_comment(txt, pos) ==
  IF current_char(txt, pos) \notin { NoChar, "\n" }
    THEN skip_comment(txt, pos + 1)
    ELSE pos

\* int(num_str)
RECURSIVE int_literal(_)
int_literal(s) ==
  IF s = << >> THEN 0
  ELSE 10 * int_literal(SubSeq(s, 1, Len(s) - 1))
       + (CHOOSE d \in 0..9 : Digit(d) = s[Len(s)])

\* The loop of read_number: digits, and one dot.
RECURSIVE number_end(_, _, _)
number_end(txt, pos, has_dot) ==
  LET c == current_char(txt, pos)
  IN IF isdigit(c) THEN number_end(txt, pos + 1, has_dot)
     ELSE IF c = "." /\ ~has_dot THEN number_end(txt, pos + 1, TRUE)
     ELSE [pos |-> pos, has_dot |-> has_dot]

\* float(num_str) is kept as the digits before the dot and those after it.
dot_at(s) == CHOOSE i \in 1..Len(s) : s[i] = "."

float_literal(s) ==
  [whole |-> int_literal(SubSeq(s, 1, dot_at(s) - 1)),
   frac |-> SubSeq(s, dot_at(s) + 1, Len(s))]

read_number(txt, pos) ==
  LET Made(e) ==
        [token |-> Token("NUMBER",
                         IF e.has_dot
                           THEN float_literal(SubSeq(txt, pos, e.pos - 1))
                           ELSE int_literal(SubSeq(txt, pos, e.pos - 1))),
         pos |-> e.pos, error |-> "none"]
  IN Made(number_end(txt, pos, FALSE))

\* The character an escape stands for.
escape(c) == CASE c = "n" -> "\n" [] c = "t" -> "\t" [] OTHER -> c

\* The loop of read_string: up to the closing quote or the end of the
\* text.  A backslash that ends the text adds None to a str.
RECURSIVE string_body(_, _, _, _)
string_body(txt, pos, quote, value) ==
  LET c == current_char(txt, pos)
  IN IF c = NoChar \/ c = quote
       THEN [pos |-> pos, value |-> value, error |-> "none"]
     ELSE IF c = "\\"
       THEN IF current_char(txt, pos + 1) = NoChar
              THEN [pos |-> pos + 1, value |-> value, error |-> "TypeError"]
              ELSE string_body(txt, pos + 2, quote,
                               value \o escape(txt[pos + 1]))
     ELSE string_body(txt, pos + 1, quote, value \o c)

\* After the loop the closing quote is passed if there is one; the token is
\* made in either case.
read_string(txt, pos) ==
  LET Closed(b) ==
        [token |-> Token("STRING", b.value),
         pos |-> IF current_char(txt, b.pos) = txt[pos] THEN b.pos + 1
                 ELSE b.pos,
         error |-> b.error]
  IN Closed(string_body(txt, pos + 1, txt[pos], ""))

RECURSIVE word_end(_, _)
word_end(txt, pos) ==
  IF isalnum(current_char(txt, pos)) \/ current_char(txt, pos) = "_"
    THEN word_end(txt, pos + 1)
    ELSE pos

\* str.strip, as far as endswith sees it: the white space at the end
RECURSIVE rstrip(_)
rstrip(s) ==
  IF s # << >> /\ isspace(s[Len(s)]) THEN rstrip(SubSeq(s, 1, Len(s) - 1))
  ELSE s

\* context_before.endswith(('repeat', '0', ..., '9'))
ends_repeat_or_digit(s) ==
  /\ s # << >>
  /\ \/ isdigit(s[Len(s)])
     \/ Len(s) >= 6 /\ chars_str(SubSeq(s, Len(s) - 5, Len(s))) = "repeat"

context_before(txt, start) ==
  rstrip(lower(SubSeq(txt, IF start - LookBack < 1 THEN 1
                           ELSE start - LookBack, start - 1)))

\* "times" after "repeat" or after a digit is the keyword of the repeat
\* statement, anywhere else the operator.
times_token(txt, start, pos) ==
  IF /\ current_char(txt, pos) \in { " ", "\n", NoChar }
     /\ ends_repeat_or_digit(context_before(txt, start))
    THEN "TIMES"
    ELSE "TIMES_OP"

\* "does not equal": 0 when the text does not go on that way, else the
\* position after the phrase.
does_not_equal(txt, pos) ==
  IF /\ peek(txt, pos) = " "
     /\ text_at(txt, pos + 1, 3) = "not"
     /\ current_char(txt, pos + 4) = " "
     /\ text_at(txt, pos + 5, 5) = "equal"
    THEN pos + 10
    ELSE 0

\* The word after "is": blanks before it are passed, it ends at a blank or
\* at a character that is neither a letter nor a digit.
RECURSIVE next_word(_, _, _)
next_word(txt, pos, word) ==
  LET c == current_char(txt, pos)
  IN IF c = " "
       THEN IF word # "" THEN [word |-> word, pos |-> pos]
            ELSE next_word(txt, pos + 1, word)
     ELSE IF isalnum(c) THEN next_word(txt, pos + 1, word \o c)
     ELSE [word |-> word, pos |-> pos]

\* The comparison that begins with "is", with the position after it, or
\* the plain "is".
is_phrase(txt, pos) ==
  LET Than(w) ==
        CASE w.word = "greater" /\ text_at(txt, w.pos, 5) = " than"
               -> [type |-> "IS_GREATER_THAN", pos |-> w.pos + 5]
          [] w.word = "less" /\ text_at(txt, w.pos, 5) = " than"
               -> [type |-> "IS_LESS_THAN", pos |-> w.pos + 5]
          [] w.word = "at" /\ text_at(txt, w.pos, 6) = " least"
               -> [type |-> "IS_AT_LEAST", pos |-> w.pos + 6]
          [] w.word = "at" /\ text_at(txt, w.pos, 6) # " least"
                           /\ text_at(txt, w.pos, 4) = " most"
               -> [type |-> "IS_AT_MOST", pos |-> w.pos + 4]
          [] OTHER -> [type |-> "IS", pos |-> pos]
  IN Than(next_word(txt, pos + 1, ""))

\* keyword_map; a word it does not hold is an identifier.
keyword_map(word) ==
  CASE word = "is" -> "IS"
    [] word = "becomes" -> "BECOMES" [] word = "say" -> "SAY"
    [] word = "print" -> "PRINT" [] word = "clear" -> "CLEAR"
    [] word = "show" -> "SHOW" [] word = "ask" -> "ASK"
    [] word = "for" -> "FOR" [] word = "if" -> "IF"
    [] word = "then" -> "THEN" [] word = "otherwise" -> "OTHERWISE"
    [] word = "repeat" -> "REPEAT" [] word = "forever" -> "FOREVER"
    [] word = "times" -> "TIMES" [] word = "until" -> "UNTIL"
    [] word = "do" -> "DO" [] word = "break" -> "BREAK"
    [] word = "continue" -> "CONTINUE" [] word = "stop" -> "STOP"
    [] word = "define" -> "DEFINE" [] word = "with" -> "WITH"
    [] word = "return" -> "RETURN" [] word = "end" -> "END"
    [] word = "when" -> "WHEN" [] word = "match" -> "MATCH"
    [] word = "to" -> "TO" [] word = "add" -> "ADD"
    [] word = "remove" -> "REMOVE" [] word = "from" -> "FROM"
    [] word = "at" -> "AT" [] word = "sort" -> "SORT"
    [] word = "reverse" -> "REVERSE" [] word = "shuffle" -> "SHUFFLE"
    [] word = "find" -> "FIND" [] word = "in" -> "IN"
    [] word = "filter" -> "FILTER" [] word = "where" -> "WHERE"
    [] word = "map" -> "MAP" [] word = "using" -> "USING"
    [] word = "item" -> "ITEM" [] word = "dictionary" -> "DICTIONARY"
    [] word = "object" -> "OBJECT" [] word = "split" -> "SPLIT"
    [] word = "by" -> "BY" [] word = "join" -> "JOIN"
    [] word = "replace" -> "REPLACE" [] word = "get" -> "GET"
    [] word = "write" -> "WRITE" [] word = "read" -> "READ"
    [] word = "file" -> "FILE" [] word = "create" -> "CREATE"
    [] word = "canvas" -> "CANVAS" [] word = "draw" -> "DRAW"
    [] word = "circle" -> "CIRCLE" [] word = "rectangle" -> "RECTANGLE"
    [] word = "line" -> "LINE" [] word = "text" -> "TEXT"
    [] word = "color" -> "COLOR" [] word = "size" -> "SIZE"
    [] word = "mouse" -> "MOUSE" [] word = "clicks" -> "CLICKS"
    [] word = "on" -> "ON" [] word = "wait" -> "WAIT"
    [] word = "seconds" -> "SECONDS" [] word = "after" -> "AFTER"
    [] word = "every" -> "EVERY" [] word = "and" -> "AND"
    [] word = "or" -> "OR" [] word = "not" -> "NOT"
    [] word = "plus" -> "PLUS" [] word = "minus" -> "MINUS"
    [] word = "increase" -> "INCREASE" [] word = "decrease" -> "DECREASE"
    [] word = "yes" -> "YES" [] word = "no" -> "NO"
    [] word = "number" -> "NUMBER_TYPE" [] word = "screen" -> "SCREEN"
    [] word = "table" -> "TABLE" [] word = "headers" -> "HEADERS"
    [] word = "data" -> "DATA" [] word = "rows" -> "ROWS"
    [] word = "use" -> "USE" [] word = "install" -> "INSTALL"
    [] word = "python" -> "PYTHON" [] word = "call" -> "CALL"
    [] word = "server" -> "SERVER" [] word = "port" -> "PORT"
    [] word = "job" -> "JOB" [] word = "cron" -> "CRON"
    [] word = "true" -> "TRUE" [] word = "false" -> "FALSE"
    [] word = "nothing" -> "NOTHING" [] word = "pi" -> "PI"
    [] word = "equals" -> "EQUALS"
    [] OTHER -> "IDENTIFIER"

read_identifier_or_keyword(txt, start) ==
  LET Word(pos, word) ==
        IF word = "times"
          THEN [token |-> Token(times_token(txt, start, pos), NoValue),
                pos |-> pos, error |-> "none"]
        ELSE IF word = "does" /\ does_not_equal(txt, pos) # 0
          THEN [token |-> Token("DOES_NOT_EQUAL", NoValue),
                pos |-> does_not_equal(txt, pos), error |-> "none"]
        ELSE IF word = "is" /\ current_char(txt, pos) = " "
                /\ is_phrase(txt, pos).type # "IS"
          THEN [token |-> Token(is_phrase(txt, pos).type, NoValue),
                pos |-> is_phrase(txt, pos).pos, error |-> "none"]
        ELSE IF word = "divided" /\ current_char(txt, pos) = " "
                /\ text_at(txt, pos + 1, 3) = "by "
          THEN [token |-> Token("DIVIDED", NoValue), pos |-> pos + 4,
                error |-> "none"]
        ELSE IF keyword_map(word) # "IDENTIFIER"
          THEN [token |-> Token(keyword_map(word), NoValue), pos |-> pos,
                error |-> "none"]
        ELSE [token |-> Token("IDENTIFIER", word), pos |-> pos,
              error |-> "none"]
      Ends(pos) == Word(pos, chars_str(lower(SubSeq(txt, start, pos - 1))))
  IN Ends(word_end(txt, start))

\* The loop of tokenize from pos on; EOF ends the tokens.
RECURSIVE tokenize_from(_, _, _)
tokenize_from(txt, pos0, toks) ==
  LET Read(r) ==
        IF r.error # "none" THEN [tokens |-> << >>, error |-> r.error]
        ELSE tokenize_from(txt, r.pos, Append(toks, r.token))
      One(type, pos) ==
        tokenize_from(txt, pos + 1, Append(toks, Token(type, NoValue)))
      At(pos, c) ==
        IF c = NoChar
          THEN [tokens |-> Append(toks, Token("EOF", NoValue)),
                error |-> "none"]
        ELSE IF c = "#" THEN tokenize_from(txt, skip_comment(txt, pos), toks)
        ELSE IF c = "\n" THEN One("NEWLINE", pos)
        ELSE IF isdigit(c) THEN Read(read_number(txt, pos))
        ELSE IF c \in { "\"", "'" } THEN Read(read_string(txt, pos))
        ELSE IF c = "." THEN One("DOT", pos)
        ELSE IF c = "[" THEN One("LBRACKET", pos)
        ELSE IF c = "]" THEN One("RBRACKET", pos)
        ELSE IF c = "," THEN One("COMMA", pos)
        ELSE IF isalpha(c) \/ c = "_"
          THEN Read(read_identifier_or_keyword(txt, pos))
        ELSE tokenize_from(txt, pos + 1, toks)
      Skipped(pos) == At(pos, current_char(txt, pos))
  IN Skipped(skip_whitespace(txt, pos0))

tokenize(txt) == tokenize_from(txt, 1, << >>)

\* ------------------------------------------------------------ the parser
\* Parser.pos counts from 1.  A parse method gives the position it leaves
\* the parser at and the node it returns (some is FALSE for None), or the
\* message of the SyntaxError it raises.  NoProgress is the outcome of a
\* loop that comes back to the state it was in: it does not return.
NoNode == [node |-> "None"]
NoProgress == "no progress"

Parsed(pos, node) ==
  [pos |-> pos, node |-> node, some |-> TRUE, error |-> "none"]
ParsedNone(pos) ==
  [pos |-> pos, node |-> NoNode, some |-> FALSE, error |-> "none"]
Failed(pos, msg) ==
  [pos |-> pos, node |-> NoNode, some |-> FALSE, error |-> msg]
good(r) == r.error = "none"

UnaryOp(op, operand) == [node |-> "UnaryOp", op |-> op, operand |-> operand]
PiLiteral == [node |-> "PiLiteral"]
PropertyAccess(obj, prop) ==
  [node |-> "PropertyAccess", obj |-> obj, prop |-> prop]
IndexAccess(obj, index) ==
  [node |-> "IndexAccess", obj |-> obj, index |-> index]
StopStatement == [op |-> "stop"]
RepeatForever(body) == [op |-> "repeat_forever", body |-> body]
RepeatUntil(condition, body) ==
  [op |-> "repeat_until", condition |-> condition, body |-> body]

token_name(toks, pos) == IF pos > Len(toks) THEN "EOF" ELSE toks[pos].type

match(toks, pos, types) == pos <= Len(toks) /\ toks[pos].type \in types

expect(toks, pos, type) ==
  IF match(toks, pos, {type}) THEN Parsed(pos + 1, toks[pos])
  ELSE Failed(pos, "Expected " \o type \o ", got " \o token_name(toks, pos))

RECURSIVE skip_newlines(_, _)
skip_newlines(toks, pos) ==
  IF match(toks, pos, {"NEWLINE"}) THEN skip_newlines(toks, pos + 1) ELSE pos

\* The tokens an argument of a call begins with, and the tokens that end
\* the arguments of a call inside an expression and of a call statement.
ArgumentStart ==
  { "NUMBER", "STRING", "IDENTIFIER", "TRUE", "FALSE", "NOTHING", "PI",
    "NOT" }
ArgumentEnd ==
  { "NEWLINE", "EOF", "END", "AND", "OR", "THEN", "OTHERWISE", "UNTIL",
    "TIMES", "DO", "FROM", "AT", "TO", "WHERE", "USING", "BY", "WITH" }
StatementEnd == { "NEWLINE", "EOF", "END" }

comparison_op(type) ==
  CASE type = "EQUALS" -> "equals"
    [] type = "DOES_NOT_EQUAL" -> "does_not_equal"
    [] type = "IS_GREATER_THAN" -> "is_greater_than"
    [] type = "IS_LESS_THAN" -> "is_less_than"
    [] type = "IS_AT_LEAST" -> "is_at_least"
    [] type = "IS_AT_MOST" -> "is_at_most"

RECURSIVE parse_expression(_, _)
RECURSIVE parse_statement(_, _)
RECURSIVE call_arguments(_, _, _, _, _)
RECURSIVE accessors(_, _, _)
RECURSIVE element_loop(_, _)
RECURSIVE term_loop(_, _)
RECURSIVE arithmetic_loop(_, _)
RECURSIVE and_loop(_, _)
RECURSIVE or_loop(_, _)
RECURSIVE say_loop(_, _)
RECURSIVE block_loop(_, _, _, _)

\* What a method makes of the result r of the method it called: the error
\* of r goes on as it is.
binary(l, op, r) ==
  IF ~good(r) THEN r ELSE Parsed(r.pos, BinaryOp(l.node, op, r.node))
negated(r) == IF ~good(r) THEN r ELSE Parsed(r.pos, UnaryOp("not", r.node))
single(e) == IF ~good(e) THEN e ELSE Parsed(e.pos, << e.node >>)
appended(r, e) ==
  IF ~good(e) THEN e ELSE Parsed(e.pos, Append(r.node, e.node))
closed(r, c) == IF ~good(c) THEN c ELSE Parsed(c.pos, r.node)
property(r, p) ==
  IF ~good(p) THEN p ELSE Parsed(p.pos, PropertyAccess(r.node, p.node.value))
indexed(r, i) ==
  IF ~good(i) THEN i ELSE Parsed(i.pos, IndexAccess(r.node, i.node))
made_call(name, a) ==
  IF ~good(a) THEN a ELSE Parsed(a.pos, FunctionCall(name, a.node))
expression_after(toks, b) ==
  IF ~good(b) THEN b ELSE parse_expression(toks, b.pos)

\* while not match(ends): an argument if one begins here, else break
more_arguments(toks, r, ends, starts, args) ==
  IF ~good(r) THEN r
  ELSE call_arguments(toks, r.pos, ends, starts, Append(args, r.node))

call_arguments(toks, pos, ends, starts, args) ==
  IF ~match(toks, pos, ends) /\ match(toks, pos, starts)
    THEN more_arguments(toks, parse_expression(toks, pos), ends, starts,
                        args)
    ELSE Parsed(pos, args)

\* [index]: the expression, then the closing bracket
index_closed(toks, r, i) ==
  IF ~good(i) THEN i
  ELSE closed(indexed(r, i), expect(toks, i.pos, "RBRACKET"))

\* while True: .prop, [index] and, in an expression, at index
accessors(toks, r, kinds) ==
  IF ~good(r) THEN r
  ELSE IF match(toks, r.pos, {"DOT"} \cap kinds)
    THEN accessors(toks, property(r, expect(toks, r.pos + 1, "IDENTIFIER")),
                   kinds)
  ELSE IF match(toks, r.pos, {"LBRACKET"} \cap kinds)
    THEN accessors(toks,
                   index_closed(toks, r, parse_expression(toks, r.pos + 1)),
                   kinds)
  ELSE IF match(toks, r.pos, {"AT"} \cap kinds)
    THEN accessors(toks, indexed(r, parse_expression(toks, r.pos + 1)),
                   kinds)
  ELSE r

\* while match(COMMA): the next element; r holds the elements so far
element_loop(toks, r) ==
  IF good(r) /\ match(toks, r.pos, {"COMMA"})
    THEN element_loop(toks, appended(r, parse_expression(toks, r.pos + 1)))
    ELSE r

list_closed(toks, r) ==
  IF ~good(r) THEN r
  ELSE closed(Parsed(r.pos, ListLiteral(r.node)),
              expect(toks, r.pos, "RBRACKET"))

parse_list_literal(toks, pos) ==
  IF match(toks, pos + 1, {"RBRACKET"})
    THEN Parsed(pos + 2, ListLiteral(<< >>))
    ELSE list_closed(toks,
                     element_loop(toks,
                                  single(parse_expression(toks, pos + 1))))

\* An identifier in an expression: accessors, or the arguments of a call.
\* The expression forms that begin with a keyword (dictionary, object,
\* find, filter, map, split, join, replace, get, read, create, python) do
\* not occur in the sources.
parse_factor(toks, pos) ==
  CASE match(toks, pos, {"NUMBER"}) ->
         Parsed(pos + 1, NumberLiteral(toks[pos].value))
    [] match(toks, pos, {"STRING"}) ->
         Parsed(pos + 1, StringLiteral(toks[pos].value))
    [] match(toks, pos, {"TRUE"}) -> Parsed(pos + 1, BooleanLiteral(TRUE))
    [] match(toks, pos, {"FALSE"}) -> Parsed(pos + 1, BooleanLiteral(FALSE))
    [] match(toks, pos, {"NOTHING"}) -> Parsed(pos + 1, Literal(Nothing))
    [] match(toks, pos, {"PI"}) -> Parsed(pos + 1, PiLiteral)
    [] match(toks, pos, {"IDENTIFIER"}) ->
         IF match(toks, pos + 1, {"DOT", "LBRACKET", "AT"})
           THEN accessors(toks, Parsed(pos + 1, Identifier(toks[pos].value)),
                          {"DOT", "LBRACKET", "AT"})
         ELSE IF match(toks, pos + 1, ArgumentStart)
           THEN made_call(toks[pos].value,
                          call_arguments(toks, pos + 1, ArgumentEnd,
                                         ArgumentStart, << >>))
         ELSE Parsed(pos + 1, Identifier(toks[pos].value))
    [] match(toks, pos, {"LBRACKET"}) -> parse_list_literal(toks, pos)
    [] OTHER -> Failed(pos, "Unexpected token: " \o token_name(toks, pos))

\* DIVIDED: self.expect(TokenType.BY), then the right operand
factor_after(toks, b) == IF ~good(b) THEN b ELSE parse_factor(toks, b.pos)

\* while match(TIMES_OP, DIVIDED)
term_loop(toks, l) ==
  IF ~good(l) THEN l
  ELSE IF match(toks, l.pos, {"TIMES_OP"})
    THEN term_loop(toks, binary(l, "times", parse_factor(toks, l.pos + 1)))
  ELSE IF match(toks, l.pos, {"DIVIDED"})
    THEN term_loop(toks,
                   binary(l, "divided_by",
                          factor_after(toks, expect(toks, l.pos + 1, "BY"))))
  ELSE l

parse_term(toks, pos) == term_loop(toks, parse_factor(toks, pos))

\* while match(PLUS, MINUS)
arithmetic_loop(toks, l) ==
  IF ~good(l) THEN l
  ELSE IF match(toks, l.pos, {"PLUS"})
    THEN arithmetic_loop(toks,
                         binary(l, "plus", parse_term(toks, l.pos + 1)))
  ELSE IF match(toks, l.pos, {"MINUS"})
    THEN arithmetic_loop(toks,
                         binary(l, "minus", parse_term(toks, l.pos + 1)))
  ELSE l

parse_arithmetic(toks, pos) == arithmetic_loop(toks, parse_term(toks, pos))

comparison_rest(toks, l) ==
  IF good(l) /\ match(toks, l.pos,
                      { "EQUALS", "DOES_NOT_EQUAL", "IS_GREATER_THAN",
                        "IS_LESS_THAN", "IS_AT_LEAST", "IS_AT_MOST" })
    THEN binary(l, comparison_op(toks[l.pos].type),
                parse_arithmetic(toks, l.pos + 1))
    ELSE l

parse_comparison(toks, pos) ==
  comparison_rest(toks, parse_arithmetic(toks, pos))

parse_not(toks, pos) ==
  IF match(toks, pos, {"NOT"}) THEN negated(parse_comparison(toks, pos + 1))
  ELSE parse_comparison(toks, pos)

and_loop(toks, l) ==
  IF good(l) /\ match(toks, l.pos, {"AND"})
    THEN and_loop(toks, binary(l, "and", parse_not(toks, l.pos + 1)))
    ELSE l

parse_and(toks, pos) == and_loop(toks, parse_not(toks, pos))

or_loop(toks, l) ==
  IF good(l) /\ match(toks, l.pos, {"OR"})
    THEN or_loop(toks, binary(l, "or", parse_and(toks, l.pos + 1)))
    ELSE l

parse_or(toks, pos) == or_loop(toks, parse_and(toks, pos))

parse_expression(toks, pos) == parse_or(toks, pos)

\* while match(AND): a further part; r holds the parts so far
say_loop(toks, r) ==
  IF good(r) /\ match(toks, r.pos, {"AND"})
    THEN say_loop(toks, appended(r, parse_expression(toks, r.pos + 1)))
    ELSE r

said(r) == IF ~good(r) THEN r ELSE Parsed(r.pos, SayStatement(r.node))

parse_say(toks, pos) ==
  said(say_loop(toks, single(parse_expression(toks, pos + 1))))

\* The target of a statement: a plain name, or the accesses made on it.
Target(node) == IF node.node = "Identifier" THEN node.name ELSE node

assigned(t, v) ==
  IF ~good(v) THEN v ELSE Parsed(v.pos, Assignment(Target(t.node), v.node))
mutated(t, mop, v) ==
  IF ~good(v) THEN v
  ELSE Parsed(v.pos, Mutation(Target(t.node), mop, v.node))

\* What follows the target: is, becomes, increase by, decrease by, or the
\* arguments of a call.  The values that begin with add, dictionary or
\* object do not occur in the sources.
after_target(toks, name, t) ==
  IF ~good(t) THEN t
  ELSE IF match(toks, t.pos, {"IS"})
    THEN assigned(t, parse_expression(toks, t.pos + 1))
  ELSE IF match(toks, t.pos, {"BECOMES"})
    THEN mutated(t, "becomes", parse_expression(toks, t.pos + 1))
  ELSE IF match(toks, t.pos, {"INCREASE"})
    THEN mutated(t, "increase",
                 expression_after(toks, expect(toks, t.pos + 1, "BY")))
  ELSE IF match(toks, t.pos, {"DECREASE"})
    THEN mutated(t, "decrease",
                 expression_after(toks, expect(toks, t.pos + 1, "BY")))
  ELSE made_call(name, call_arguments(toks, t.pos, StatementEnd,
                                      ArgumentStart \cup {"LBRACKET"},
                                      << >>))

\* name [.prop | [index]]*, then what follows the target
parse_assignment_or_mutation(toks, pos) ==
  after_target(toks, toks[pos].value,
               accessors(toks, Parsed(pos + 1, Identifier(toks[pos].value)),
                         {"DOT", "LBRACKET"}))

\* One pass of a block loop has parsed r: the newlines after it, and the
\* loop again.  A pass that parses nothing leaves the position where it
\* was, and so does every pass after it.
block_next(toks, pos, stop, body, r) ==
  IF ~good(r) THEN r
  ELSE IF skip_newlines(toks, r.pos) = pos THEN Failed(pos, NoProgress)
  ELSE block_loop(toks, skip_newlines(toks, r.pos), stop,
                  IF r.some THEN Append(body, r.node) ELSE body)

\* while not match(stop): a statement, the newlines after it
block_loop(toks, pos, stop, body) ==
  IF match(toks, pos, {stop}) THEN Parsed(pos, body)
  ELSE block_next(toks, pos, stop, body, parse_statement(toks, pos))

\* skip_newlines() and the block, after what r parsed
block_after(toks, r, stop) ==
  IF ~good(r) THEN r
  ELSE block_loop(toks, skip_newlines(toks, r.pos), stop, << >>)

repeated_forever(b) ==
  IF ~good(b) THEN b ELSE Parsed(b.pos + 1, RepeatForever(b.node))
repeated_until(c, b) ==
  IF ~good(b) THEN b ELSE Parsed(b.pos + 1, RepeatUntil(c.node, b.node))
repeated_times(c, b) ==
  IF ~good(b) THEN b ELSE Parsed(b.pos + 1, RepeatTimes(c.node, b.node))

repeat_until_block(toks, c) ==
  IF ~good(c) THEN c ELSE repeated_until(c, block_after(toks, c, "END"))

repeat_times_block(toks, c) ==
  IF ~good(c) THEN c
  ELSE repeated_times(c, block_after(toks, expect(toks, c.pos, "TIMES"),
                                     "END"))

\* repeat forever | repeat until COND | repeat COUNT times, then the block
\* up to end
parse_repeat(toks, pos) ==
  IF match(toks, pos + 1, {"FOREVER"})
    THEN repeated_forever(block_loop(toks, skip_newlines(toks, pos + 2),
                                     "END", << >>))
  ELSE IF match(toks, pos + 1, {"UNTIL"})
    THEN repeat_until_block(toks, parse_expression(toks, pos + 2))
  ELSE repeat_times_block(toks, parse_expression(toks, pos + 1))

done_until(b, c) ==
  IF ~good(c) THEN c ELSE Parsed(c.pos, DoUntil(b.node, c.node))

do_condition(toks, b) ==
  IF ~good(b) THEN b ELSE done_until(b, parse_expression(toks, b.pos + 1))

parse_do_until(toks, pos) ==
  do_condition(toks, block_loop(toks, skip_newlines(toks, pos + 1), "UNTIL",
                                << >>))

\* The statements of the sources; for a token that begins none of the
\* statements parse_statement returns None and leaves it where it is.
statement_at(toks, pos) ==
  CASE match(toks, pos, {"SAY"}) -> parse_say(toks, pos)
    [] match(toks, pos, {"REPEAT"}) -> parse_repeat(toks, pos)
    [] match(toks, pos, {"DO"}) -> parse_do_until(toks, pos)
    [] match(toks, pos, {"BREAK"}) -> Parsed(pos + 1, BreakStatement)
    [] match(toks, pos, {"CONTINUE"}) -> Parsed(pos + 1, ContinueStatement)
    [] match(toks, pos, {"STOP"}) -> Parsed(pos + 1, StopStatement)
    [] match(toks, pos, {"IDENTIFIER"}) ->
         parse_assignment_or_mutation(toks, pos)
    [] OTHER -> ParsedNone(pos)

parse_statement(toks, pos0) == statement_at(toks, skip_newlines(toks, pos0))

\* ------------------------------------------------------ the source texts
\* The words of the sources, character by character.
Chars(w) ==
  CASE w = "x" -> << "x" >>
    [] w = "a" -> << "a" >>
    [] w = "b" -> << "b" >>
    [] w = "A" -> << "A" >>
    [] w = "1" -> << "1" >>
    [] w = "2" -> << "2" >>
    [] w = "3" -> << "3" >>
    [] w = "4" -> << "4" >>
    [] w = "#" -> << "#" >>
    [] w = "is" -> << "i", "s" >>
    [] w = "by" -> << "b", "y" >>
    [] w = "do" -> << "d", "o" >>
    [] w = "say" -> << "s", "a", "y" >>
    [] w = "end" -> << "e", "n", "d" >>
    [] w = "plus" -> << "p", "l", "u", "s" >>
    [] w = "less" -> << "l", "e", "s", "s" >>
    [] w = "than" -> << "t", "h", "a", "n" >>
    [] w = "minus" -> << "m", "i", "n", "u", "s" >>
    [] w = "times" -> << "t", "i", "m", "e", "s" >>
    [] w = "Times" -> << "T", "i", "m", "e", "s" >>
    [] w = "until" -> << "u", "n", "t", "i", "l" >>
    [] w = "repeat" -> << "r", "e", "p", "e", "a", "t" >>
    [] w = "divided" -> << "d", "i", "v", "i", "d", "e", "d" >>
    [] w = "'hi'" -> << "'", "h", "i", "'" >>
    [] w = "'hi" -> << "'", "h", "i" >>

\* Words with one blank between them, lines with a newline between them.
RECURSIVE Line(_)
Line(words) ==
  IF Len(words) = 1 THEN Chars(words[1])
  ELSE Chars(Head(words)) \o << " " >> \o Line(Tail(words))

RECURSIVE Text(_)
Text(lines) ==
  IF Len(lines) = 1 THEN Line(lines[1])
  ELSE Line(Head(lines)) \o << "\n" >> \o Text(Tail(lines))

Operands == { "2", "3", "4", "a", "b" }
Operators ==
  { << "plus" >>, << "minus" >>, << "times" >>, << "divided", "by" >> }

\* x is A op B op C, then say x
Arithmetic(a, o1, b, o2, c) ==
  Text(<< << "x", "is", a >> \o o1 \o << b >> \o o2 \o << c >>,
          << "say", "x" >> >>)

\* x is A divided by B
Division(a, b) == Text(<< << "x", "is", a, "divided", "by", b >> >>)

Sources ==
  { Arithmetic(a, o1, b, o2, c) :
      a \in Operands, b \in Operands, c \in Operands,
      o1 \in Operators, o2 \in Operators }
  \cup
  { Division(a, b) : a \in Operands, b \in Operands }
  \cup
  { Text(<< << "say", "'hi'" >> >>),
    Text(<< << "say", "'hi" >> >>),
    Text(<< << "x", "is", "'hi" >>, << "say", "x" >> >>),
    Text(<< << "4" >> >>),
    Text(<< << "x", "is", "A", "Times", "b" >>, << "say", "x", "#", "a" >> >>),
    Text(<< << "repeat", "3", "times" >>, << "say", "1" >>, << "end" >> >>),
    Text(<< << "repeat", "3", "times" >>, << "4" >>, << "end" >> >>),
    Text(<< << "do" >>, << "a", "is", "a", "plus", "1" >>,
            << "until", "a", "is", "less", "than", "2" >> >>) }

\* The parser before it is made.
NoParser ==
  [state |-> "none", pos |-> 0, statements |-> << >>, passes |-> 0,
   error |-> "none"]

NoSource ==
  /\ source = << >>
  /\ tokens = << >>
  /\ parser = NoParser

NoProgram ==
  /\ NoSource
  /\ perm_string \in { s \in PermStrings : Permissions(s) = perms }
  /\ prog = "none"
  /\ arg = Nothing
  /\ world \in { w \in Worlds : w.network = "ok" }
  /\ ip = 0
  /\ runtime = << >>
  /\ out = << >>
  /\ io = << >>
  /\ status = "none"
  /\ hist = NoHist

\* --------------------------------------------------------------- actions
\* A thread that Scheduler.start has not made yet, and the main thread
\* between two statements.
Unborn ==
  [pc |-> "unborn", idx |-> 0, snap_after |-> << >>, snap_jobs |-> << >>,
   now |-> 0, dt |-> fromtimestamp(0), in_body |-> FALSE, todo |-> << >>]

Idle == [mid |-> FALSE, node |-> [op |-> "none"]]

Init ==
  /\ virtual_time = TRUE
  /\ clock = 0
  /\ running = FALSE
  /\ thr = [t \in 1..MaxThreads |-> Unborn]
  /\ main = Idle
  /\ current_time = 0
  /\ after_tasks = << >>
  /\ every_tasks = << >>
  /\ jobs = << >>
  /\ cron_tasks = << >>
  /\ perms \in PermSets
  /\ pc = "idle"
  /\ idx = 0
  /\ snap_after = << >>
  /\ snap_jobs = << >>
  /\ now = fromtimestamp(0)
  /\ propagated = FALSE
  /\ last = "init"
  /\ log = << >>
  /\ nextId = 1
  /\ stats = [areg |-> 0, afired |-> 0, start |-> 0, t0 |-> 0]
  /\ NoProgram

\* The part of the state space the model explores.
WithinBounds(S) ==
  /\ S.current_time >= 0
  /\ S.current_time <= MaxTime
  /\ S.clock <= MaxTime
  /\ Len(S.after_tasks) <= MaxTasks
  /\ Len(S.every_tasks) <= MaxTasks
  /\ Len(S.jobs) <= MaxTasks
  /\ Len(S.cron_tasks) <= MaxTasks
  /\ S.nextId <= MaxReg + 1

Commit(S) ==
  /\ WithinBounds(S)
  /\ current_time' = S.current_time
  /\ clock' = S.clock
  /\ after_tasks' = S.after_tasks
  /\ every_tasks' = S.every_tasks
  /\ jobs' = S.jobs
  /\ cron_tasks' = S.cron_tasks
  /\ nextId' = S.nextId
  /\ stats' = S.stats

\* A statement of the main program, executed between two steps.
MainStmt(node) ==
  /\ virtual_time
  /\ pc = "idle"
  /\ Commit(execute(Cur, node))
  /\ last' = node.op
  /\ UNCHANGED << perms, langv, wallv, ctl, log >>

Wait == \E node \in Stmts("wait") : MainStmt(node)

After == \E node \in Stmts("after") : MainStmt(node)

Every == \E node \in Stmts("every") : MainStmt(node)

Job == \E node \in Stmts("job") : MainStmt(node)

StopJob == \E node \in Stmts("stop_job") : MainStmt(node)

Cron == \E node \in Stmts("cron") : MainStmt(node)

\* step(dt), lines 131-133: advance the clock, copy after_tasks.
StepBegin ==
  \E dt \in Dts :
    /\ virtual_time
    /\ pc = "idle"
    /\ current_time + dt <= MaxTime
    /\ current_time' = current_time + dt
    /\ snap_after' = after_tasks
    /\ pc' = "after"
    /\ idx' = 1
    /\ log' = << >>
    /\ last' = "step"
    /\ propagated' = FALSE
    /\ stats' = [stats EXCEPT !.start = nextId, !.t0 = current_time + dt]
    /\ UNCHANGED << clock, after_tasks, every_tasks, jobs, cron_tasks,
                    perms, langv, wallv, snap_jobs, now, nextId >>

\* What a loop of step() does after a body: go on, unless the exception is
\* one that except Exception lets through.
Entry(cls, task, S) ==
  [cls |-> cls, rid |-> task.rid, body |-> task.body, exc |-> S.exc,
   ord |-> IF cls = "job" THEN task.first ELSE task.rid]

AfterBody(S, entry) ==
  /\ log' = Append(log, entry)
  /\ last' = "step"
  /\ IF S.exc = "none" \/ ExceptException(S.exc)
       THEN /\ idx' = idx + 1
            /\ UNCHANGED << pc, propagated >>
       ELSE /\ pc' = "idle"
            /\ propagated' = TRUE
            /\ UNCHANGED idx

Skip ==
  /\ idx' = idx + 1
  /\ UNCHANGED << sched, perms, langv, wallv, pc, snap_after, snap_jobs, now, propagated,
                  last, log, nextId, stats >>

\* list.remove(x): drops the first element equal to x; the dicts compare by
\* their keys time, body and interpreter.
SameDict(x, y) == x.time = y.time /\ x.body = y.body

CountSameDict(l, x) == Cardinality({i \in 1..Len(l) : SameDict(l[i], x)})

list_remove(l, x) ==
  LET i == CHOOSE i \in 1..Len(l) :
             /\ SameDict(l[i], x)
             /\ \A j \in 1..(i - 1) : ~SameDict(l[j], x)
  IN SubSeq(l, 1, i - 1) \o SubSeq(l, i + 1, Len(l))

\* Variant: a task is due only after its fire time has passed.
AfterDue_strict(t, task) == t > task.time

AfterDue(t, task) == t >= task.time

\* lines 133-140, one pass of the loop over the copy
AfterIter ==
  /\ pc = "after"
  /\ idx <= Len(snap_after)
  /\ LET task == snap_after[idx]
     IN IF AfterDue(current_time, task)
          THEN LET S1 == RunBody(Cur, Body(task.body))
                   ok == S1.exc = "none" \/ ExceptException(S1.exc)
                   S2 == IF ok
                           THEN [S1 EXCEPT
                                   !.after_tasks = list_remove(@, task),
                                   !.stats.afired = @ + 1]
                           ELSE [S1 EXCEPT !.stats.afired = @ + 1]
               IN /\ Commit(S2)
                  /\ AfterBody(S1, Entry("after", task, S1))
                  /\ UNCHANGED << perms, langv, wallv, snap_after, snap_jobs, now >>
          ELSE Skip

AfterDone ==
  /\ pc = "after"
  /\ idx > Len(snap_after)
  /\ pc' = "every"
  /\ idx' = 1
  /\ UNCHANGED << sched, perms, langv, wallv, snap_after, snap_jobs, now, propagated, last,
                  log, nextId, stats >>

EveryDue(t, task) == t >= task.last_run + task.interval

\* Variant: the next run is counted from the previous due time.
rearm_drift(task, t) == [task EXCEPT !.last_run = @ + task.interval]

\* task['last_run'] = self.current_time
rearm(task, t) == [task EXCEPT !.last_run = t]

\* lines 142-149, one pass of the loop over the live list
EveryIter ==
  /\ pc = "every"
  /\ idx <= Len(every_tasks)
  /\ LET task == every_tasks[idx]
     IN IF EveryDue(current_time, task)
          THEN LET S1 == RunBody(Cur, Body(task.body))
                   ok == S1.exc = "none" \/ ExceptException(S1.exc)
                   S2 == IF ok
                           THEN [S1 EXCEPT !.every_tasks[idx] =
                                             rearm(@, S1.current_time)]
                           ELSE S1
               IN /\ Commit(S2)
                  /\ AfterBody(S1, Entry("every", task, S1))
                  /\ UNCHANGED << perms, langv, wallv, snap_after, snap_jobs, now >>
          ELSE Skip

\* line 151: list(self.jobs.items())
EveryDone ==
  /\ pc = "every"
  /\ idx > Len(every_tasks)
  /\ pc' = "jobs"
  /\ idx' = 1
  /\ snap_jobs' = jobs
  /\ UNCHANGED << sched, perms, langv, wallv, snap_after, now, propagated, last, log,
                  nextId, stats >>

\* job['last_run'] = ... writes the dict of the copy; the table shows the
\* write only while it still holds that dict.
SetJobLastRun(js, rid, t) ==
  [i \in 1..Len(js) |->
     IF js[i].rid = rid THEN [js[i] EXCEPT !.last_run = t] ELSE js[i]]

\* lines 151-158, one pass of the loop over the copy
JobsIter ==
  /\ pc = "jobs"
  /\ idx <= Len(snap_jobs)
  /\ LET task == snap_jobs[idx]
     IN IF EveryDue(current_time, task)
          THEN LET S1 == RunBody(Cur, Body(task.body))
                   ok == S1.exc = "none" \/ ExceptException(S1.exc)
                   S2 == IF ok
                           THEN [S1 EXCEPT !.jobs =
                                   SetJobLastRun(@, task.rid,
                                                 S1.current_time)]
                           ELSE S1
               IN /\ Commit(S2)
                  /\ AfterBody(S1, Entry("job", task, S1))
                  /\ snap_jobs' = IF ok
                                    THEN [snap_jobs EXCEPT ![idx].last_run =
                                            S1.current_time]
                                    ELSE snap_jobs
                  /\ UNCHANGED << perms, langv, wallv, snap_after, now >>
          ELSE Skip

\* line 160: now = datetime.fromtimestamp(self.current_time)
JobsDone ==
  /\ pc = "jobs"
  /\ idx > Len(snap_jobs)
  /\ pc' = "cron"
  /\ idx' = 1
  /\ now' = fromtimestamp(current_time)
  /\ UNCHANGED << sched, perms, langv, wallv, snap_after, snap_jobs, propagated, last,
                  log, nextId, stats >>

\* lines 161-168, one pass of the loop over the live list
CronIter ==
  /\ pc = "cron"
  /\ idx <= Len(cron_tasks)
  /\ LET task == cron_tasks[idx]
     IN IF matches_cron(now, task.cron_fields)
          THEN LET S1 == RunBody(Cur, Body(task.body))
                   S2 == [S1 EXCEPT !.cron_tasks[idx].fires = @ + 1]
               IN /\ Commit(S2)
                  /\ AfterBody(S1, Entry("cron", task, S1))
                  /\ UNCHANGED << perms, langv, wallv, snap_after, snap_jobs, now >>
          ELSE Skip

\* step() returns: its locals are gone.
CronDone ==
  /\ pc = "cron"
  /\ idx > Len(cron_tasks)
  /\ pc' = "idle"
  /\ idx' = 0
  /\ snap_after' = << >>
  /\ snap_jobs' = << >>
  /\ now' = fromtimestamp(0)
  /\ log' = << >>
  /\ stats' = [stats EXCEPT !.start = 0, !.t0 = 0]
  /\ UNCHANGED << sched, perms, langv, wallv, propagated, last, nextId >>

Next ==
  \/ Wait \/ After \/ Every \/ Job \/ StopJob \/ Cron
  \/ StepBegin
  \/ AfterIter \/ AfterDone
  \/ EveryIter \/ EveryDone
  \/ JobsIter \/ JobsDone
  \/ CronIter \/ CronDone

Spec == Init /\ [][Next]_vars

\* run_tests: the statements of the program, then step().  A program of one
\* registration and one step; the step runs to its end without waiting for
\* anything else.
Register == nextId = 1 /\ \E node \in StepStmts : MainStmt(node)

FirstStep == current_time = 0 /\ StepBegin

StepRuns ==
  \/ AfterIter \/ AfterDone
  \/ EveryIter \/ EveryDone
  \/ JobsIter \/ JobsDone
  \/ CronIter \/ CronDone

NextStep ==
  \/ Register
  \/ FirstStep
  \/ AfterIter \/ AfterDone
  \/ EveryIter \/ EveryDone
  \/ JobsIter \/ JobsDone
  \/ CronIter \/ CronDone

SpecStep == Init /\ [][NextStep]_vars /\ WF_vars(StepRuns)

\* The same scheduler under the program ClockStmts.
ClockStmt == \E node \in ClockStmts : MainStmt(node)

NextClock ==
  \/ ClockStmt
  \/ StepBegin
  \/ AfterIter \/ AfterDone
  \/ EveryIter \/ EveryDone
  \/ JobsIter \/ JobsDone
  \/ CronIter \/ CronDone

SpecClock == Init /\ [][NextClock]_vars

\* ------------------------------------------------- wall-clock mode
\* run_file: Scheduler(virtual_time=False), start() under --forever, then
\* the statements of the program on the main thread, while the thread made
\* by start() runs the loop of run() on the same interpreter.
InitWall ==
  /\ virtual_time = FALSE
  /\ clock = 0
  /\ running = FALSE
  /\ thr = [t \in 1..MaxThreads |-> Unborn]
  /\ main = Idle
  /\ current_time = 0
  /\ after_tasks = << >>
  /\ every_tasks = << >>
  /\ jobs = << >>
  /\ cron_tasks = << >>
  /\ perms \in PermSets
  /\ pc = "idle"
  /\ idx = 0
  /\ snap_after = << >>
  /\ snap_jobs = << >>
  /\ now = fromtimestamp(0)
  /\ propagated = FALSE
  /\ last = "init"
  /\ log = << >>
  /\ nextId = 1
  /\ stats = [areg |-> 0, afired |-> 0, start |-> 0, t0 |-> 0]
  /\ NoProgram

stepv == << pc, idx, snap_after, snap_jobs, now, propagated, last, log >>

\* Time passes.
Tick ==
  /\ ~virtual_time
  /\ clock + 30 <= MaxClock
  /\ clock' = clock + 30
  /\ UNCHANGED << current_time, after_tasks, every_tasks, jobs, cron_tasks,
                  perms, langv, wallv, stepv, nextId, stats >>

\* The main thread enters interpreter.execute(stmt) ...
MainBegin ==
  \E node \in WallStmts :
    /\ ~virtual_time
    /\ ~main.mid
    /\ nextId <= MaxWallReg
    /\ main' = [mid |-> TRUE, node |-> node]
    /\ UNCHANGED << sched, perms, langv, virtual_time, running, thr, stepv, nextId,
                    stats >>

\* ... and leaves it, the statement done.
MainEnd ==
  /\ ~virtual_time
  /\ main.mid
  /\ Commit(execute(Cur, main.node))
  /\ main' = Idle
  /\ UNCHANGED << perms, langv, virtual_time, running, thr, stepv >>

\* Scheduler.start, lines 186-238
Start ==
  /\ ~virtual_time
  /\ ~main.mid
  /\ IF running
       THEN UNCHANGED << running, thr >>
       ELSE /\ \E t \in 1..MaxThreads : thr[t].pc = "unborn"
            /\ running' = TRUE
            /\ LET t == CHOOSE t \in 1..MaxThreads :
                          /\ thr[t].pc = "unborn"
                          /\ \A u \in 1..(t - 1) : thr[u].pc # "unborn"
               IN thr' = [thr EXCEPT ![t].pc = "while"]
  /\ UNCHANGED << sched, perms, langv, virtual_time, main, stepv, nextId, stats >>

\* Scheduler.stop, lines 240-242
Stop ==
  /\ ~virtual_time
  /\ ~main.mid
  /\ running' = FALSE
  /\ UNCHANGED << sched, perms, langv, virtual_time, thr, main, stepv, nextId,
                  stats >>

\* while self.running: now = time.time(), line 194-198; the thread ends
\* when it reads running = False.
ThreadWhile(t) ==
  /\ thr[t].pc = "while"
  /\ thr' = [thr EXCEPT ![t] =
               IF running
                 THEN [@ EXCEPT !.pc = "after", !.idx = 1, !.now = clock,
                                !.snap_after = after_tasks]
                 ELSE [@ EXCEPT !.pc = "dead"]]
  /\ UNCHANGED << sched, perms, langv, virtual_time, running, main, stepv, nextId,
                  stats >>

\* The list a loop of run() goes through, and its test.
LoopList(f) ==
  CASE f.pc = "after" -> f.snap_after
    [] f.pc = "every" -> every_tasks
    [] f.pc = "jobs" -> f.snap_jobs
    [] f.pc = "cron" -> cron_tasks

LoopDue(f, task) ==
  CASE f.pc = "after" -> AfterDue(f.now, task)
    [] f.pc = "every" -> EveryDue(f.now, task)
    [] f.pc = "jobs" -> EveryDue(f.now, task)
    [] f.pc = "cron" -> matches_cron(f.dt, task.cron_fields)

InLoop(f) == f.pc \in {"after", "every", "jobs", "cron"}

\* One test of a loop of run(): a due task has its body started.
ThreadIter(t) ==
  LET f == thr[t]
  IN /\ InLoop(f)
     /\ ~f.in_body
     /\ f.idx <= Len(LoopList(f))
     /\ thr' = [thr EXCEPT ![t] =
                  IF LoopDue(f, LoopList(f)[f.idx])
                    THEN [@ EXCEPT !.in_body = TRUE,
                                   !.todo = Body(LoopList(f)[f.idx].body)]
                    ELSE [@ EXCEPT !.idx = @ + 1]]
     /\ UNCHANGED << sched, perms, langv, virtual_time, running, main, stepv,
                     nextId, stats >>

\* task['interpreter'].execute(stmt) for the next statement of the body;
\* except Exception ends the body.
ThreadStmt(t) ==
  LET f == thr[t]
      S1 == execute(Cur, Head(f.todo))
  IN /\ f.in_body
     /\ f.todo # << >>
     /\ Commit(S1)
     /\ thr' = [thr EXCEPT ![t].todo = IF S1.exc = "none" THEN Tail(@)
                                       ELSE << >>]
     /\ UNCHANGED << perms, langv, virtual_time, running, main, stepv >>

\* What follows the body: lines 205, 214, 223.  list.remove raises
\* ValueError when the task is gone, which ends the thread.
ThreadBodyEnd(t) ==
  LET f == thr[t]
      task == LoopList(f)[f.idx]
      gone == f.pc = "after" /\ CountSameDict(after_tasks, task) = 0
  IN /\ f.in_body
     /\ f.todo = << >>
     /\ after_tasks' = IF f.pc = "after" /\ ~gone
                         THEN list_remove(after_tasks, task)
                         ELSE after_tasks
     /\ every_tasks' = IF f.pc = "every"
                         THEN [every_tasks EXCEPT ![f.idx] = rearm(@, f.now)]
                         ELSE every_tasks
     /\ jobs' = IF f.pc = "jobs" THEN SetJobLastRun(jobs, task.rid, f.now)
                ELSE jobs
     /\ thr' = [thr EXCEPT ![t] =
                  IF gone THEN [@ EXCEPT !.pc = "dead", !.in_body = FALSE]
                  ELSE [@ EXCEPT !.in_body = FALSE, !.idx = @ + 1]]
     /\ UNCHANGED << current_time, clock, cron_tasks, perms, langv, virtual_time,
                     running, main, stepv, nextId, stats >>

\* A loop of run() is through: on to the next one, and after the last one
\* time.sleep(0.1) and back to the while.
ThreadLoopDone(t) ==
  LET f == thr[t]
  IN /\ InLoop(f)
     /\ ~f.in_body
     /\ f.idx > Len(LoopList(f))
     /\ thr' = [thr EXCEPT ![t] =
                  CASE f.pc = "after" -> [@ EXCEPT !.pc = "every", !.idx = 1,
                                                   !.snap_after = << >>]
                    [] f.pc = "every" -> [@ EXCEPT !.pc = "jobs", !.idx = 1,
                                                   !.snap_jobs = jobs]
                    [] f.pc = "jobs" -> [@ EXCEPT !.pc = "cron", !.idx = 1,
                                                  !.snap_jobs = << >>,
                                                  !.dt = fromtimestamp(clock)]
                    [] f.pc = "cron" -> [@ EXCEPT !.pc = "while", !.idx = 0,
                                                  !.now = 0,
                                                  !.dt = fromtimestamp(0)]]
     /\ UNCHANGED << sched, perms, langv, virtual_time, running, main, stepv,
                     nextId, stats >>

Thread ==
  \E t \in 1..MaxThreads :
    \/ ThreadWhile(t)
    \/ ThreadIter(t)
    \/ ThreadStmt(t)
    \/ ThreadBodyEnd(t)
    \/ ThreadLoopDone(t)

NextWall ==
  \/ Tick
  \/ MainBegin
  \/ MainEnd
  \/ Start
  \/ Stop
  \/ Thread

SpecWall == InitWall /\ [][NextWall]_vars

\* ------------------------------------------------- run_file on a program
\* run_file (and, with a virtual scheduler, the driver of the conformance
\* tests): the interpreter, its scheduler, and the statements of the
\* program one after the other on the main thread; --forever is off, so no
\* thread is started and no task body runs.
InitLang ==
  /\ virtual_time \in BOOLEAN
  /\ clock = 0
  /\ running = FALSE
  /\ thr = [t \in 1..MaxThreads |-> Unborn]
  /\ main = Idle
  /\ current_time = 0
  /\ after_tasks = << >>
  /\ every_tasks = << >>
  /\ jobs = << >>
  /\ cron_tasks = << >>
  /\ pc = "idle"
  /\ idx = 0
  /\ snap_after = << >>
  /\ snap_jobs = << >>
  /\ now = fromtimestamp(0)
  /\ propagated = FALSE
  /\ last = "init"
  /\ log = << >>
  /\ nextId = 1
  /\ stats = [areg |-> 0, afired |-> 0, start |-> 0, t0 |-> 0]
  /\ perm_string \in PermStrings
  /\ perms = Permissions(perm_string)
  /\ prog \in Programs
  /\ arg \in Args
  /\ world \in Worlds
  /\ ip = 1
  /\ runtime = << Runtime(<< >>, << >>, "main", << >>) >>
  /\ out = << >>
  /\ io = << >>
  /\ status = "running"
  /\ hist = NoHist
  /\ NoSource

\* The interpreter between two statements of the program.
Interp ==
  [frames |-> runtime, out |-> out, io |-> io, sch |-> Cur, sig |-> "none",
   msg |-> "", val |-> Nothing, ctx |-> << >>, hist |-> hist]

ControlSignals ==
  {"ReturnSignal", "BreakSignal", "ContinueSignal", "StopSignal"}

\* run_file, lines 51-53 and 62-69: interpreter.execute(stmt) for the next
\* statement; a control signal that leaves it ends the program with 0, any
\* other exception is printed to stderr and ends it with 1.
ExecuteStmt ==
  /\ status = "running"
  /\ ip <= Len(Program(prog, arg))
  /\ LET Run(R) ==
        /\ Commit(R.sch)
        /\ runtime' = R.frames
        /\ io' = R.io
        /\ hist' = R.hist
        /\ IF R.sig = "none"
             THEN /\ ip' = ip + 1
                  /\ out' = R.out
                  /\ UNCHANGED status
           ELSE IF R.sig \in ControlSignals
             THEN /\ status' = "returned 0"
                  /\ out' = R.out
                  /\ UNCHANGED ip
           ELSE IF R.sig = "Serving"
             THEN /\ status' = "serving"
                  /\ out' = R.out
                  /\ UNCHANGED ip
           ELSE /\ status' = "returned 1"
                /\ out' = Append(R.out, [kind |-> "stderr",
                                         text |-> "Runtime error: " \o R.msg])
                /\ UNCHANGED ip
     IN Run(Execute(Interp, Program(prog, arg)[ip]))
  /\ UNCHANGED << source, tokens, parser >>
  /\ UNCHANGED << perms, perm_string, prog, arg, world, wallv, ctl, last,
                  log >>

\* run_file, line 71: the statements are through, return 0.
Return0 ==
  /\ status = "running"
  /\ ip > Len(Program(prog, arg))
  /\ status' = "returned 0"
  /\ UNCHANGED << sched, perms, perm_string, prog, arg, world, ip, runtime,
                  out, io, hist, wallv, ctl, last, log, nextId, stats, source,
                  tokens, parser >>

NextLang ==
  \/ ExecuteStmt
  \/ Return0

SpecLang == InitLang /\ [][NextLang]_vars

\* ------------------------------------------- run_file: lexing and parsing
\* The state of the scheduler and of the interpreter, which lexing and
\* parsing leave alone.
restv ==
  << sched, perms, wallv, ctl, last, log, nextId, stats, perm_string, prog,
     arg, world, ip, runtime, out, io, status, hist >>

InitParse ==
  /\ virtual_time = FALSE
  /\ clock = 0
  /\ running = FALSE
  /\ thr = [t \in 1..MaxThreads |-> Unborn]
  /\ main = Idle
  /\ current_time = 0
  /\ after_tasks = << >>
  /\ every_tasks = << >>
  /\ jobs = << >>
  /\ cron_tasks = << >>
  /\ pc = "idle"
  /\ idx = 0
  /\ snap_after = << >>
  /\ snap_jobs = << >>
  /\ now = fromtimestamp(0)
  /\ propagated = FALSE
  /\ last = "init"
  /\ log = << >>
  /\ nextId = 1
  /\ stats = [areg |-> 0, afired |-> 0, start |-> 0, t0 |-> 0]
  /\ perm_string = << >>
  /\ perms = Permissions(perm_string)
  /\ prog = "none"
  /\ arg = Nothing
  /\ world = CHOOSE w \in Worlds : w.network = "ok"
  /\ ip = 0
  /\ runtime = << >>
  /\ out = << >>
  /\ io = << >>
  /\ status = "none"
  /\ hist = NoHist
  /\ source \in Sources
  /\ tokens = << >>
  /\ parser = [NoParser EXCEPT !.state = "new"]

\* lexer = Lexer(source); tokens = lexer.tokenize()
Tokenize ==
  /\ parser.state = "new"
  /\ LET Lexed(r) ==
           /\ tokens' = r.tokens
           /\ parser' = [parser EXCEPT
                           !.state = IF r.error = "none" THEN "lexed"
                                     ELSE r.error,
                           !.error = r.error]
     IN Lexed(tokenize(source))
  /\ UNCHANGED << source, restv >>

\* parser = Parser(tokens); parse() up to its while loop
ParseStart ==
  /\ parser.state = "lexed"
  /\ parser' = [parser EXCEPT !.state = "parsing",
                              !.pos = skip_newlines(tokens, 1)]
  /\ UNCHANGED << source, tokens, restv >>

\* One pass of the while loop of parse(): a statement, the newlines after
\* it.  passes is history: the passes made so far.
ParseStatement ==
  /\ parser.state = "parsing"
  /\ ~match(tokens, parser.pos, {"EOF"})
  /\ parser.passes < MaxPasses
  /\ LET Pass(r) ==
           parser' =
             IF good(r)
               THEN [parser EXCEPT
                       !.pos = skip_newlines(tokens, r.pos),
                       !.statements = IF r.some THEN Append(@, r.node)
                                      ELSE @,
                       !.passes = @ + 1]
             ELSE IF r.error = NoProgress
               THEN [parser EXCEPT !.state = "block loop",
                                   !.passes = @ + 1]
             ELSE [parser EXCEPT !.state = "SyntaxError",
                                 !.error = r.error, !.passes = @ + 1]
     IN Pass(parse_statement(tokens, parser.pos))
  /\ UNCHANGED << source, tokens, restv >>

\* return Program(statements)
ParseReturn ==
  /\ parser.state = "parsing"
  /\ match(tokens, parser.pos, {"EOF"})
  /\ parser' = [parser EXCEPT !.state = "Program"]
  /\ UNCHANGED << source, tokens, restv >>

NextParse ==
  \/ Tokenize
  \/ ParseStart
  \/ ParseStatement
  \/ ParseReturn

SpecParse == InitParse /\ [][NextParse]_vars

\* ---------------------------------------------------------------- claims
\* The last statement of step() has been reached: the step is complete.
StepEnd == pc = "cron" /\ idx > Len(cron_tasks)

\* The step dispatched the task of that class and registration.
Fired(cls, rid) ==
  \E i \in 1..Len(log) : log[i].cls = cls /\ log[i].rid = rid

\* This transition dispatched a body.
Dispatch == Len(log') = Len(log) + 1

\* The tasks of a queue that were registered before this transition.
Older(l, id) == SelectSeq(l, LAMBDA x : x.rid < id)

\* C1 as stated: when a step is complete, the after tasks it found are
\* dispatched exactly when the step leaves current_time >= their fire time,
\* and every registered after task is either pending or was dispatched once.
C1_Original ==
  StepEnd =>
    /\ \A i \in 1..Len(snap_after) :
         (snap_after[i].time <= current_time)
           <=> Fired("after", snap_after[i].rid)
    /\ stats.areg = stats.afired + Len(after_tasks)

\* C1 amended: a step dispatches an after task exactly when current_time
\* >= its fire time at the moment the loop of step() examines it (the
\* advanced clock plus the waits of the bodies run before it in that step);
\* the dispatch removes one task with that fire time and body from
\* after_tasks, so that every registered after task is either pending or
\* was dispatched once.
C1_FiresOnceWhenDue ==
  /\ [](stats.areg = stats.afired + Len(after_tasks))
  /\ [][(pc = "after" /\ idx <= Len(snap_after)) =>
          LET task == snap_after[idx]
              old == Older(after_tasks', nextId)
          IN IF current_time >= task.time
               THEN /\ Dispatch
                    /\ log'[Len(log')].cls = "after"
                    /\ log'[Len(log')].rid = task.rid
                    /\ Len(old) = Len(after_tasks) - 1
                    /\ CountSameDict(old, task) = CountSameDict(after_tasks, task) - 1
               ELSE /\ log' = log
                    /\ after_tasks' = after_tasks]_vars

\* An after task registered with 60 seconds has just been dispatched and is
\* gone from after_tasks, while a task the same step found is still pending
\* although its fire time has passed.
C1_Witness ==
  /\ pc = "after"
  /\ \E i \in 1..Len(log) :
       /\ log[i].cls = "after"
       /\ \A k \in 1..Len(after_tasks) : after_tasks[k].rid # log[i].rid
  /\ \E k \in 1..Len(after_tasks) :
       /\ after_tasks[k].rid < stats.start
       /\ after_tasks[k].time <= current_time
       /\ after_tasks[k].time > stats.t0

\* C2 as stated: step() never runs the body of a job whose name is not in
\* the job table, that is, of a job stopped and not registered again.
C2_NoDispatchAfterStop ==
  [][(pc = "jobs" /\ idx <= Len(snap_jobs) /\ Dispatch) =>
       JobIndex(jobs, snap_jobs[idx].name) # 0]_vars

\* C3 as stated: every task a step dispatches was registered before the
\* step began.
C3_NotInSameStep ==
  \A i \in 1..Len(log) : log[i].rid < stats.start

Rank(cls) ==
  CASE cls = "after" -> 1 [] cls = "every" -> 2 [] cls = "job" -> 3
    [] cls = "cron" -> 4

\* C4 as stated: the bodies of one step run class by class, after, every,
\* job, cron, and within a class in the order of the tasks' registrations,
\* a job counting with its latest registration.
C4_Original ==
  \A i, j \in 1..Len(log) :
    i < j =>
      /\ Rank(log[i].cls) <= Rank(log[j].cls)
      /\ log[i].cls = log[j].cls => log[i].rid < log[j].rid

\* C4 amended: as stated, but a job re-registered under a name that is in
\* the table keeps the place of the registration that put the name there.
C4_Order ==
  \A i, j \in 1..Len(log) :
    i < j =>
      /\ Rank(log[i].cls) <= Rank(log[j].cls)
      /\ log[i].cls = log[j].cls => log[i].ord < log[j].ord

\* One step has run two jobs one after the other, the first of them
\* registered again after the second was registered.
C4_Witness ==
  \E j, k \in 1..Len(log) :
    /\ j < k
    /\ log[j].cls = "job" /\ log[k].cls = "job"
    /\ log[j].rid > log[k].rid
    /\ log[j].ord < log[k].ord

\* C5 as stated, in the form of its upper bound: once a step is done, a
\* cron task registered with "every minute" has run at most once for each
\* minute of virtual time between its registration and now.
C5_OncePerMinute ==
  pc = "idle" =>
    \A i \in 1..Len(cron_tasks) :
      cron_tasks[i].schedule = "every minute" =>
        cron_tasks[i].fires <=
          (current_time \div SecondsPerMinute)
            - (cron_tasks[i].reg \div SecondsPerMinute) + 1

\* Registration of an every task: appended with last_run = current_time.
EveryRegistered ==
  (last' = "every" /\ Len(every_tasks') = Len(every_tasks) + 1) =>
    /\ every_tasks'[Len(every_tasks')].last_run = current_time
    /\ current_time' = current_time

\* No transition removes or reorders an every task.
EveryKept ==
  /\ Len(every_tasks') >= Len(every_tasks)
  /\ \A i \in 1..Len(every_tasks) : every_tasks'[i].rid = every_tasks[i].rid

\* C6 as stated: an every task starts with last_run = the time of its
\* registration, a step runs it exactly when the clock as advanced by the
\* step is >= last_run + interval and then sets last_run to that clock, and
\* the task stays registered.
C6_Original ==
  /\ [][EveryRegistered /\ EveryKept]_vars
  /\ [][(pc = "every" /\ idx <= Len(every_tasks)) =>
          LET task == every_tasks[idx]
          IN IF stats.t0 >= task.last_run + task.interval
               THEN /\ Dispatch
                    /\ log'[Len(log')].rid = task.rid
                    /\ every_tasks'[idx].last_run = stats.t0
               ELSE log' = log]_vars

\* C6 amended: the clock compared with last_run + interval is current_time
\* at the moment the loop examines the task (the advanced clock plus the
\* waits of the bodies run before it in that step), and last_run is set to
\* current_time as it is when the body has finished (waits of the body
\* included); registration and persistence are as stated.
C6_EveryFires ==
  /\ [][EveryRegistered /\ EveryKept]_vars
  /\ [][(pc = "every" /\ idx <= Len(every_tasks)) =>
          LET task == every_tasks[idx]
          IN IF current_time >= task.last_run + task.interval
               THEN /\ Dispatch
                    /\ log'[Len(log')].rid = task.rid
                    /\ log'[Len(log')].cls = "every"
                    /\ every_tasks'[idx].last_run = current_time'
                    /\ every_tasks'[idx].interval = task.interval
               ELSE /\ log' = log
                    /\ every_tasks' = every_tasks]_vars

\* An every task whose body waits has just run: its last_run is the clock
\* after the wait, later than the clock the step advanced to.
C6_Witness ==
  /\ pc = "every"
  /\ idx > 1
  /\ Len(log) > 0
  /\ log[Len(log)].cls = "every"
  /\ log[Len(log)].body = "wait"
  /\ every_tasks[idx - 1].rid = log[Len(log)].rid
  /\ every_tasks[idx - 1].last_run = current_time
  /\ current_time > stats.t0

\* C7 as stated: the job table holds at most one entry for a name, a job
\* registration sets last_run to the time of the registration, and a job
\* body that step() runs belongs to the entry the table holds for its name.
C7_OnlyNewJob ==
  /\ [](\A i, j \in 1..Len(jobs) : jobs[i].name = jobs[j].name => i = j)
  /\ [][(last' = "job" /\ nextId' = nextId + 1) =>
          \E i \in 1..Len(jobs') :
            /\ jobs'[i].rid = nextId
            /\ jobs'[i].last_run = current_time]_vars
  /\ [][(pc = "jobs" /\ idx <= Len(snap_jobs) /\ Dispatch) =>
          LET k == JobIndex(jobs, snap_jobs[idx].name)
          IN k # 0 => jobs[k].rid = snap_jobs[idx].rid]_vars

\* C8: an exception or control signal raised by a body does not leave
\* step(): the loop goes on with the next task, an after task whose body
\* failed is removed, and an every task or a job whose body failed has its
\* last_run set.
C8_Swallowed ==
  /\ [](propagated = FALSE)
  /\ [][(Dispatch /\ log'[Len(log')].exc # "none") =>
          /\ pc' = pc
          /\ idx' = idx + 1
          /\ pc = "after" =>
               /\ Len(Older(after_tasks', nextId)) = Len(after_tasks) - 1
               /\ CountSameDict(Older(after_tasks', nextId), snap_after[idx])
                    = CountSameDict(after_tasks, snap_after[idx]) - 1
          /\ pc = "every" => every_tasks'[idx].last_run = current_time'
          /\ pc = "jobs" =>
               \A k \in 1..Len(jobs') :
                 jobs'[k].rid = snap_jobs[idx].rid =>
                   jobs'[k].last_run = current_time']_vars

\* A body raised StopSignal, another raised NameError, and the step went on
\* to run a body after each of them.
C8_Witness ==
  /\ Len(log) >= 3
  /\ \E i, j \in 1..(Len(log) - 1) :
       /\ log[i].exc = "StopSignal"
       /\ log[j].exc = "NameError"
  /\ propagated = FALSE

C11_Monotonic ==
  [][virtual_time => current_time' >= current_time]_vars

\* C9 as stated: while the thread of the scheduler is inside a task body
\* the main thread is not inside a statement, and no two threads are inside
\* task bodies at once.
C9_Serialized ==
  /\ \A t \in 1..MaxThreads : thr[t].in_body => ~main.mid
  /\ \A t, u \in 1..MaxThreads :
       (thr[t].in_body /\ thr[u].in_body) => t = u

\* ---------------------------------------- claims about the interpreter
\* The capabilities one of which lets a gated operation pass, as the
\* check_* method it calls reads them.
Required(op) ==
  CASE op \in {"get", "post"} -> {"network"}
    [] op \in {"read_file", "write_file"} -> {"files"}
    [] op \in {"create_canvas", "draw", "when_mouse_clicks"} -> {"graphics"}
    [] op \in {"wait", "after", "every", "job"} -> {"timers", "graphics"}
    [] op = "cron" -> {"cron", "timers"}
    [] op = "server" -> {"server"}
    [] op \in {"python_call", "use_python"} -> {"python_ffi"}
    [] op \in {"use", "install"} -> {"packages"}

GatedOps ==
  { "get", "post", "read_file", "write_file", "create_canvas", "draw",
    "when_mouse_clicks", "wait", "after", "every", "job", "cron", "server",
    "python_call", "use_python", "use", "install" }

Denied(op) == Required(op) \cap perms = {}

\* C12 as stated: a gated operation whose capability is denied fails in
\* its permission check, before its effect: the scheduler (its queues and
\* current_time) is as it was, no collaborator was called and no trace was
\* printed.
C12_CheckBeforeEffect ==
  \A i \in 1..Len(hist.gates) :
    LET g == hist.gates[i]
    IN /\ g.op \in GatedOps
       /\ Denied(g.op) =>
            /\ ~g.passed
            /\ g.denied_msg # ""
            /\ g.io = 0
            /\ g.out = 0
            /\ ~g.sch

\* A wait, an after and an every were executed without timers and without
\* graphics: each was refused and the scheduler is as it was made.
C12_Witness ==
  /\ prog = "timers" /\ ip = 4
  /\ \A i \in 1..3 : Denied(hist.gates[i].op) /\ ~hist.gates[i].passed
  /\ { hist.gates[i].op : i \in 1..3 } = {"wait", "after", "every"}
  /\ current_time = 0 /\ after_tasks = << >> /\ every_tasks = << >>
  /\ io = << >>

\* C13 as stated: a wait, after, every or job statement passes its check
\* exactly when timers or graphics is granted, and a cron statement exactly
\* when cron or timers is granted; a check that does not pass fails with
\* its permission error.
C13_Relaxation ==
  \A i \in 1..Len(hist.gates) :
    LET g == hist.gates[i]
    IN /\ g.op \in {"wait", "after", "every", "job"} =>
            /\ g.passed <=> ("timers" \in perms \/ "graphics" \in perms)
            /\ ~g.passed => g.denied_msg = "Timer access not allowed"
       /\ g.op = "cron" =>
            /\ g.passed <=> ("cron" \in perms \/ "timers" \in perms)
            /\ ~g.passed => g.denied_msg = "Cron access not allowed"

\* With graphics alone a job statement passed check_timers and a cron
\* statement failed check_cron.
C13_Witness ==
  /\ perms = {"graphics"}
  /\ \E i, j \in 1..Len(hist.gates) :
       /\ hist.gates[i].op = "job" /\ hist.gates[i].passed
       /\ hist.gates[j].op = "cron" /\ ~hist.gates[j].passed
       /\ hist.gates[j].denied_msg = "Cron access not allowed"
  /\ Len(jobs) = 1 /\ cron_tasks = << >>

\* C14 as stated: permissions made from no permission string (or from the
\* empty one) grant packages and deny every other capability, so of the
\* gated operations only use and install pass their check.
C14_Default ==
  perm_string = << >> =>
    /\ perms = {"packages"}
    /\ \A c \in Capabilities \ {"packages"} : c \notin perms
    /\ \A i \in 1..Len(hist.gates) :
         hist.gates[i].passed <=> hist.gates[i].op \in {"use", "install"}

\* Without a permission string a use and two installs passed their check.
C14_Witness ==
  /\ perm_string = << >>
  /\ prog = "packages" /\ ip = 4
  /\ Len(hist.gates) = 3
  /\ \A i \in 1..3 : hist.gates[i].passed

\* C15 as stated: the parent of the frame of a call is the environment the
\* function was defined in, not the scope of the caller.  The functions of
\* the programs are defined in the main program, so a name the body reads
\* and its own frame does not hold is found in the frame of the main
\* program or not at all, and a name captured at the definition is found
\* with a binding of that frame.
C15_CapturedEnvironment ==
  \A i \in 1..Len(hist.reads) :
    LET r == hist.reads[i]
    IN /\ r.holder \in {0, 1}
       /\ r.captured => r.found

\* C16 as stated: an assignment or a mutation of a plain variable in the
\* body of a function writes the frame of the call only: when the call is
\* over, the variables of the frame of the caller and of each of its
\* ancestors are bound as they were when the frame of the call was made.
C16_WritesOwnFrame ==
  \A i \in 1..Len(hist.calls) : hist.calls[i].after = hist.calls[i].before

\* A call that assigned its parameter x, increased and decreased n of the
\* main program, rebound x and assigned a new name has returned: the four
\* names are in the frame it left, and the main program holds x = 1, n = 5.
C16_Witness ==
  /\ prog = "shadow" /\ ip = 5
  /\ \E i \in 1..Len(hist.calls) :
       LET c == hist.calls[i]
       IN /\ c.fn = "f" /\ c.sig = "ReturnSignal"
          /\ DOMAIN c.local = {"x", "n", "fresh"}
          /\ c.local["n"] = Num(3) /\ c.local["x"] = Num(3)
          /\ c.before = << [x |-> Num(1), n |-> Num(5)] >>
  /\ Top(runtime).variables["x"] = Num(1)
  /\ Top(runtime).variables["n"] = Num(5)
  /\ Top(runtime).variables["y"] = Num(3)

\* C17 as stated: when a filter or a map expression is through, item is
\* bound in the current frame as it was before the expression: to the
\* value it had, whatever the value, if it was bound, and not at all if it
\* was not.
C17_ItemRestored ==
  \A i \in 1..Len(hist.items) :
    LET x == hist.items[i]
    IN x.ok => /\ x.has = x.had
               /\ x.new = x.old

\* C18 as stated: with debug off, an error raised while a statement of the
\* main program is executed is printed on the output stream and the driver
\* goes on to the next statement; the error does not end the program.
C18_ErrorContinues ==
  [][(status = "running" /\ Len(hist'.raised) > Len(hist.raised)) =>
       /\ status' = "running"
       /\ ip' = ip + 1
       /\ \E i \in (Len(out) + 1)..Len(out') : out'[i].kind = "error"]_vars

\* C19 as stated: a stop executed anywhere in the main program, inside
\* loops, if blocks and function calls, ends the program: the signal
\* reaches the driver, no statement is begun after it, and the driver
\* returns 0 and reports no error.
C19_StopEnds ==
  hist.stopped =>
    /\ status = "returned 0"
    /\ hist.after_stop = 0
    /\ \A i \in 1..Len(out) : out[i].kind # "stderr"

\* A stop was executed in an if block in a loop in a function called from
\* an if block in a loop of the main program, which has a statement left.
C19_Witness ==
  /\ prog = "stop"
  /\ hist.stopped
  /\ hist.stop_ctx = << "loop", "if", "call", "loop", "if" >>
  /\ status = "returned 0"
  /\ ip = 2 /\ ip < Len(Program(prog, arg))

\* C20 as stated: the right operand of an and whose left operand is falsy,
\* and of an or whose left operand is truthy, is not evaluated: between
\* the left operand and the result nothing is evaluated, printed or
\* raised, and the result is the left operand.
C20_ShortCircuit ==
  \A i \in 1..Len(hist.bools) :
    LET b == hist.bools[i]
        determined == IF b.op = "and" THEN ~Truthy(b.left)
                      ELSE Truthy(b.left)
    IN determined =>
         /\ b.nev_end = b.nev_left
         /\ b.out_end = b.out_left
         /\ b.raised_end = b.raised_left
         /\ b.ok /\ b.res = b.left

\* The permission string names packages.
NamesPackages == \E i \in 1..Len(perm_string) : perm_string[i] = "packages"

\* C29 as stated: permissions made from a non-empty string that does not
\* name packages deny packages, and a use or an install then fails its
\* check; packages is granted by the empty string and by its name only.
C29_PackagesOverridden ==
  /\ "packages" \in perms <=> (perm_string = << >> \/ NamesPackages)
  /\ \A i \in 1..Len(hist.gates) :
       LET g == hist.gates[i]
       IN g.op \in {"use", "install"} =>
            /\ g.passed <=> (perm_string = << >> \/ NamesPackages)
            /\ ~g.passed => g.denied_msg = "Package access not allowed"

\* With the string "timers,cron" a use and two installs were refused, and
\* nothing was looked up or copied.
C29_Witness ==
  /\ perm_string = << "timers", "cron" >>
  /\ prog = "packages" /\ ip = 4
  /\ Len(hist.gates) = 3
  /\ \A i \in 1..3 : ~hist.gates[i].passed
  /\ { hist.gates[i].op : i \in 1..3 } = {"use", "install"}
  /\ io = << >>

\* C30 as stated: a call of a name of a builtin runs the builtin, in any
\* scope and whatever was defined before: the body of a user function of
\* that name is never executed by a call.  The builtin of the programs is
\* abs.
C30_BuiltinFirst ==
  /\ \A i \in 1..Len(hist.calls) : hist.calls[i].fn # "abs"
  /\ \A i \in 1..Len(out) : out[i].text \notin {"user", "inner"}

\* A function abs is stored in the main program, and abs was called there
\* and in a function that had defined an abs of its own: both calls gave
\* the absolute value.
C30_Witness ==
  /\ prog = "builtin" /\ ip = 5
  /\ "abs" \in DOMAIN Top(runtime).functions
  /\ Top(runtime).functions["abs"].params = << "u" >>
  /\ Top(runtime).variables["x"] = Num(1)
  /\ Top(runtime).variables["y"] = Num(5)
  /\ \E i \in 1..Len(hist.calls) : hist.calls[i].fn = "wrap"

\* C26 as stated: when a call of a user function is over, however it ended
\* (fell through, returned, left with a break, continue or stop signal or
\* with an error), the current frame is the one that was current before
\* the call; between the statements of the main program the current frame
\* is the root frame.
C26_ScopeRestored ==
  /\ \A i \in 1..Len(hist.calls) :
       hist.calls[i].scope = hist.calls[i].caller
  /\ status # "none" => Len(runtime) = 1

\* Calls have fallen through, returned, failed with an error and left with
\* a break and a continue signal, one of them made inside another call, and
\* the main program is at its next statement in the root frame.
C26_Witness ==
  /\ prog = "outcomes" /\ status = "running" /\ ip = 12
  /\ { hist.calls[i].sig : i \in 1..Len(hist.calls) } =
       {"none", "ReturnSignal", "NameError", "BreakSignal", "ContinueSignal"}
  /\ \E i \in 1..Len(hist.calls) : hist.calls[i].caller = 2
  /\ Len(runtime) = 1

\* C25 as stated: a do ... until loop runs its body at least once and
\* evaluates its condition after every execution of the body, one cut
\* short by continue included, and is left as soon as the condition is
\* truthy: a loop left by its condition has evaluated it as often as it
\* has run its body, and until true runs the body once.
C25_ConditionAfterBody ==
  \A i \in 1..Len(hist.loops) :
    LET l == hist.loops[i]
    IN /\ l.bodies >= 1
       /\ l.how = "condition" =>
            /\ Len(l.conds) = l.bodies
            /\ \A j \in 1..Len(l.conds) : l.conds[j] <=> j = Len(l.conds)

C28_OneLoop ==
  Cardinality({ t \in 1..MaxThreads :
                  thr[t].pc \notin {"unborn", "dead"} }) <= 1

\* ------------------------------ claims about the lexer and the parser
\* The node an operand of the sources stands for.
OperandNode(w) ==
  CASE w = "2" -> NumberLiteral(2)
    [] w = "3" -> NumberLiteral(3)
    [] w = "4" -> NumberLiteral(4)
    [] OTHER -> Identifier(w)

PlusTimesCases ==
  { [text |-> Arithmetic(a, << "plus" >>, b, << "times" >>, c),
     node |-> BinaryOp(OperandNode(a), "plus",
                       BinaryOp(OperandNode(b), "times", OperandNode(c)))] :
      a \in Operands, b \in Operands, c \in Operands }

DivisionCases ==
  { [text |-> Division(a, b),
     node |-> BinaryOp(OperandNode(a), "divided_by", OperandNode(b))] :
      a \in Operands, b \in Operands }

\* C21 as stated: in "x is A plus B times C" the word times is the
\* multiplication operator and binds tighter than plus: the statement
\* parsed is x is A plus (B times C), for "x is 2 plus 3 times 4" as for
\* any operands.
C21_TimesBindsTighter ==
  \A k \in PlusTimesCases :
    (source = k.text /\ parser.passes >= 1) =>
      /\ tokens[6].type = "TIMES_OP"
      /\ parser.state # "SyntaxError"
      /\ parser.statements # << >>
      /\ parser.statements[1] = Assignment("x", k.node)

\* C22 as stated: "A divided by B" is accepted by the lexer and the
\* parser and gives the division of A by B; no error is raised.
C22_DividedBy ==
  \A k \in DivisionCases :
    (source = k.text /\ parser.passes >= 1) =>
      /\ parser.state # "SyntaxError"
      /\ parser.statements = << Assignment("x", k.node) >>

\* C23 as stated: parse() ends for every token sequence that ends in EOF:
\* no pass of a statement loop, at the top level or in a block, leaves
\* the parser at the token it began at.
C23_PassConsumes ==
  [][parser'.passes = parser.passes + 1 =>
       /\ parser'.state # "block loop"
       /\ parser'.state = "parsing" => parser'.pos > parser.pos]_vars

\* A text whose last string literal is not closed; the sources have no
\* escapes and no quotes in comments, so it is one with an odd number of
\* quotes.
UnterminatedString(txt) ==
  Cardinality({ i \in 1..Len(txt) : txt[i] \in { "'", "\"" } }) % 2 = 1

\* C24 as stated: lexing a source with an unterminated string literal
\* fails with a LexError and produces no tokens.
C24_UnterminatedFails ==
  (UnterminatedString(source) /\ parser.state # "new") =>
    /\ parser.state = "LexError"
    /\ tokens = << >>


====
